---- MODULE Spec2Model ----
(***************************************************************************)
(* A model of the AIFAQ backend (RAWx18/aifaq, src/core):                  *)
(*   - the agent coordinator and the base agent wrapper                    *)
(*     (agents/agent_coordinator.py, agents/base_agent.py),                *)
(*   - the guardrail configuration and processor (guardrails.py),          *)
(*   - the HTTP routes that gate requests (routes/main.py, api.py),        *)
(*   - the retrieval agent (agents/retrieval_agent.py).                    *)
(* Each subsystem has its own specification over the shared variables;     *)
(* the variables of the other subsystems stay at their idle values.        *)
(***************************************************************************)
EXTENDS Integers, Sequences, FiniteSets, TLC

VARIABLES
    \* ---- agent coordinator (one run_pipeline call) ----
    agents,              \* AgentCoordinator.agents: the configured agent list
    initial_input,       \* the argument of run_pipeline
    pc,                  \* position of the run_pipeline coroutine
    idx,                 \* 1-based position of the for loop over self.agents
    current_data,        \* local current_data
    processing_history,  \* local processing_history
    running,             \* agents whose execute_with_logging is in progress
    received,            \* the input_data each invoked agent was given
    results,             \* the value each execute_with_logging call returned
    ret,                 \* what run_pipeline returned
    \* ---- guardrail processor (one check_query / process_response use) ----
    gConfig,             \* GuardrailProcessor.config
    gQuery,              \* the query argument
    gResponse,           \* the response argument
    gCheck,              \* None, or Some(what check_query returned)
    gProcessed,          \* None, or Some(what process_response returned)
    \* ---- the HTTP API process ----
    default_files,           \* the files at the three default guardrail paths
    routes_processor,        \* routes.main.guardrails_processor
    singleton_guardrails,    \* initialize_models._guardrails
    main_guardrails_processor, \* the global of that name in api.py
    model_calls,             \* calls of the generation model
    retrieval_calls,         \* searches of the vector index
    pipeline_runs,           \* calls of MultiAgentRAG.generate_response
    session_history,         \* the session history store: session id -> messages
    rag_history,             \* MultiAgentRAG.session_history
    pipeline_inputs,         \* the initial_input of each coordinator.run_pipeline call
    legacy_call,             \* None, or Some(the last generate_response call)
    reply,                   \* the last request and its HTTP response
    requests,                \* requests served
    \* ---- one call of RetrievalAgent.process ----
    retrieval_input,         \* its input_data
    index_answers,           \* what the vector index does on its 1st, 2nd, 3rd search
    index_calls,             \* the searches made: query and k
    retrieval_result,        \* None, or Some(the mapping returned)
    \* ---- one run of ingest.py ----
    splits,                  \* len(splits): the chunks are numbered 1..splits
    ingest_i,                \* the loop variable i of the batch loop
    vectorstore,             \* None while the name is unbound, or Some(chunks in it)
    persisted,               \* the chunks in the persisted index
    batch_log,               \* the batches processed so far, with their outcome
    \* ---- one call of ContextIntegrationAgent._trim_context ----
    max_context_length,      \* ContextIntegrationAgent.max_context_length
    context,                 \* the context argument
    trimmed,                 \* None, or Some(the string returned)
    \* ---- one call of QueryUnderstandingAgent._determine_query_type ----
    raw_query,               \* the query classified
    detected_type,           \* None, or Some(the type returned)
    \* ---- one call of EvaluationAgent.process ----
    evaluation_scores,       \* the five metric scores, in hundredths
    evaluation,              \* None, or Some(the mapping returned)
    \* ---- one call of ContextIntegrationAgent._create_general_context ----
    general_documents,       \* the documents argument
    chat_history,            \* the chat_history argument
    general_key_terms,       \* the key_terms argument
    general_context,         \* None, or Some(the context returned)
    \* ---- the streaming part of one generate_response call ----
    to_generate,             \* the text pieces the model is going to produce
    put_count,               \* how many of them the worker thread has produced
    text_queue,              \* the streamer's queue between the two threads
    worker,                  \* the thread running model.generate
    caller,                  \* the thread running generate_response
    stream_response,         \* the caller's local response
    stream_history,          \* the messages added to the conversation history
    returned,                \* None, or Some(the processed response returned)
    \* ---- one call of GuardrailConfig.load_from_file ----
    load_config,             \* the configuration object before the call
    load_file,               \* what sits at the path given
    load_result              \* None, or Some(the configuration after the call)

pipeVars == <<agents, initial_input, pc, idx, current_data, processing_history,
              running, received, results, ret>>
guardVars == <<gConfig, gQuery, gResponse, gCheck, gProcessed>>

apiVars == <<default_files, routes_processor, singleton_guardrails,
             main_guardrails_processor, model_calls, retrieval_calls, pipeline_runs,
             session_history, rag_history, pipeline_inputs, legacy_call, reply,
             requests>>

retrievalVars == <<retrieval_input, index_answers, index_calls, retrieval_result>>

ingestVars == <<splits, ingest_i, vectorstore, persisted, batch_log>>

trimVars == <<max_context_length, context, trimmed>>
queryVars == <<raw_query, detected_type>>
evaluationVars == <<evaluation_scores, evaluation>>
contextVars == <<general_documents, chat_history, general_key_terms, general_context>>
agentVars == <<trimVars, queryVars, evaluationVars, contextVars>>

loadVars == <<load_config, load_file, load_result>>
streamVars == <<to_generate, put_count, text_queue, worker, caller, stream_response,
                stream_history, returned>>

vars == <<pipeVars, guardVars, apiVars, retrievalVars, ingestVars, agentVars, loadVars,
          streamVars>>

(***************************************************************************)
(* Bounds of the model.                                                    *)
(***************************************************************************)
MaxAgents == 3       \* agents of a coordinator
MaxWords == 2        \* words of a generated query
Margin == 1          \* response lengths tried on either side of the limit
MaxRequests == 2     \* requests served by the API process
MaxResults == 2      \* documents the index returns to the first search
MaxChunks == 61      \* chunks the text splitter produces
MaxContext == 14     \* characters of a context to trim
MaxContextLength == 11   \* max_context_length of a context agent
MaxTypeWords == 2    \* words of a query to classify
MaxHistory == 4      \* entries of a chat history
MaxTokens == 3       \* text pieces the model generates for one response

\* dict.get(key, default)
Get(m, k, default) == IF k \in DOMAIN m THEN m[k] ELSE default

(***************************************************************************)
(* Text.  Python str values are TLA+ strings; offsets count the characters *)
(* before a position (0 .. Len(s)).                                        *)
(***************************************************************************)
CharAt(s, i) == SubSeq(s, i, i)
Slice(s, a, b) == IF a > b THEN "" ELSE SubSeq(s, a, b)
CharsOf(s) == {CharAt(s, i) : i \in 1..Len(s)}
Min(S) == CHOOSE m \in S : \A o \in S : m <= o
Max(S) == CHOOSE m \in S : \A o \in S : m >= o

UpperAlpha == "ABCDEFGHIJKLMNOPQRSTUVWXYZ"
LowerAlpha == "abcdefghijklmnopqrstuvwxyz"
UpperChars == CharsOf(UpperAlpha)
Digits == CharsOf("0123456789")
Letters == UpperChars \cup CharsOf(LowerAlpha)
WordChars == Letters \cup Digits \cup {"_"}          \* regex \w
Whitespace == {" ", "\n", "\t"}                      \* regex \s

\* str.lower()
LowerChar(c) ==
    IF c \in UpperChars
    THEN CharAt(LowerAlpha, CHOOSE i \in 1..Len(UpperAlpha) : CharAt(UpperAlpha, i) = c)
    ELSE c
RECURSIVE Lower(_)
Lower(s) ==
    IF Len(s) = 0 THEN ""
    ELSE IF Len(s) = 1 THEN LowerChar(s)
    ELSE LET h == Len(s) \div 2
         IN  Lower(SubSeq(s, 1, h)) \o Lower(SubSeq(s, h + 1, Len(s)))

\* `t in s` on str
Contains(s, t) ==
    \E i \in 0..(Len(s) - Len(t)) : Slice(s, i + 1, i + Len(t)) = t

\* s.endswith(t)
EndsWith(s, t) == Len(t) <= Len(s) /\ Slice(s, Len(s) - Len(t) + 1, Len(s)) = t

\* s[:n], for n of either sign
Prefix(s, n) ==
    IF n >= 0 THEN Slice(s, 1, IF n < Len(s) THEN n ELSE Len(s))
    ELSE Slice(s, 1, IF Len(s) + n > 0 THEN Len(s) + n ELSE 0)

\* c * n
RECURSIVE Times(_, _)
Times(c, n) ==
    IF n <= 0 THEN "" ELSE IF n = 1 THEN c
    ELSE Times(c, n \div 2) \o Times(c, n - (n \div 2))

(***************************************************************************)
(* Regular expressions (module re): a backtracking matcher over pattern    *)
(* trees.  Mt(stack, s, i) is the end offset of the first match, in        *)
(* backtracking order, of the patterns of `stack` one after the other      *)
(* from offset i, or NoMatch.  Quantifiers are greedy.                     *)
(***************************************************************************)
Lit(s) == [t |-> "lit", s |-> s]
Set(cs) == [t |-> "set", cs |-> cs]
NSet(cs) == [t |-> "nset", cs |-> cs]
Cat(xs) == [t |-> "seq", xs |-> xs]
Alt(xs) == [t |-> "alt", xs |-> xs]
Rep(n, lo, hi) == [t |-> "rep", x |-> n, lo |-> lo, hi |-> hi]   \* hi < 0: no limit
Opt(n) == Rep(n, 0, 1)
Star(n) == Rep(n, 0, -1)
Plus(n) == Rep(n, 1, -1)
WordB == [t |-> "b"]                      \* \b
Dot == NSet({"\n"})                       \* .
Digit == Set(Digits)                      \* \d
Space == Set(Whitespace)                  \* \s
NonSpace == NSet(Whitespace)              \* \S

IsWordAt(s, i) == i >= 1 /\ i <= Len(s) /\ CharAt(s, i) \in WordChars
Boundary(s, i) == IsWordAt(s, i) # IsWordAt(s, i + 1)

NoMatch == -1

RECURSIVE Mt(_, _, _), MtAlt(_, _, _, _, _), MtRep(_, _, _, _)
Mt(stack, s, i) ==
    IF stack = <<>> THEN i
    ELSE LET n == Head(stack)
             rest == Tail(stack)
         IN CASE n.t = "lit" ->
                   IF i + Len(n.s) <= Len(s) /\ Slice(s, i + 1, i + Len(n.s)) = n.s
                   THEN Mt(rest, s, i + Len(n.s)) ELSE NoMatch
              [] n.t = "set" ->
                   IF i < Len(s) /\ CharAt(s, i + 1) \in n.cs
                   THEN Mt(rest, s, i + 1) ELSE NoMatch
              [] n.t = "nset" ->
                   IF i < Len(s) /\ CharAt(s, i + 1) \notin n.cs
                   THEN Mt(rest, s, i + 1) ELSE NoMatch
              [] n.t = "b" ->
                   IF Boundary(s, i) THEN Mt(rest, s, i) ELSE NoMatch
              [] n.t = "seq" -> Mt(n.xs \o rest, s, i)
              [] n.t = "alt" -> MtAlt(n.xs, 1, rest, s, i)
              [] n.t = "rep" -> MtRep(n, rest, s, i)
MtAlt(xs, k, rest, s, i) ==
    IF k > Len(xs) THEN NoMatch
    ELSE LET r == Mt(<<xs[k]>> \o rest, s, i)
         IN  IF r # NoMatch THEN r ELSE MtAlt(xs, k + 1, rest, s, i)
MtRep(n, rest, s, i) ==
    IF n.x.t \in {"set", "nset"}
    THEN \* a run of single characters: the longest count that lets the rest match
         LET ok(j) == IF n.x.t = "set" THEN CharAt(s, j) \in n.x.cs
                                       ELSE CharAt(s, j) \notin n.x.cs
             bad == {j \in (i + 1)..Len(s) : ~ok(j)}
             run == IF bad = {} THEN Len(s) - i ELSE Min(bad) - i - 1
             top == IF n.hi >= 0 /\ n.hi < run THEN n.hi ELSE run
             ks  == {k \in n.lo..top : Mt(rest, s, i + k) # NoMatch}
         IN  IF ks = {} THEN NoMatch ELSE Mt(rest, s, i + Max(ks))
    ELSE LET more == IF n.hi = 0 THEN NoMatch
                     ELSE Mt(<<n.x, Rep(n.x, IF n.lo > 0 THEN n.lo - 1 ELSE 0,
                                        IF n.hi > 0 THEN n.hi - 1 ELSE n.hi)>> \o rest, s, i)
         IN  IF more # NoMatch THEN more
             ELSE IF n.lo <= 0 THEN Mt(rest, s, i) ELSE NoMatch

\* the offsets at or after `from` where a match of p starts
MatchStarts(p, s, from) == {j \in from..Len(s) : Mt(<<p>>, s, j) # NoMatch}

\* A pattern X* R is found somewhere exactly when R is: an occurrence of R at j
\* is one of X* R at j with no repetition, and one of X* R ends in one of R.
Unanchored(p) ==
    IF p.t = "seq" /\ Len(p.xs) > 1 /\ p.xs[1].t = "rep"
       /\ p.xs[1].lo = 0 /\ p.xs[1].hi < 0
    THEN Cat(Tail(p.xs))
    ELSE p

\* re.search(p, s) is not None
Search(p, s) == \E j \in 0..Len(s) : Mt(<<Unanchored(p)>>, s, j) # NoMatch

\* re.sub(p, repl, s): `text` is the string rewritten, `s` the string matched
\* (text itself, or its lowercase under re.IGNORECASE)
RECURSIVE SubFrom(_, _, _, _, _)
SubFrom(p, repl, text, s, from) ==
    LET starts == MatchStarts(p, s, from)
    IN  IF starts = {} THEN Slice(text, from + 1, Len(text))
        ELSE LET j == Min(starts)
                 e == Mt(<<p>>, s, j)
             IN  Slice(text, from + 1, j) \o repl \o
                 (IF e > j THEN SubFrom(p, repl, text, s, e)
                  ELSE IF j < Len(s)
                       THEN CharAt(text, j + 1) \o SubFrom(p, repl, text, s, j + 1)
                       ELSE "")
Sub(p, repl, text) == SubFrom(p, repl, text, text, 0)
SubIgnoreCase(p, repl, text) == SubFrom(p, repl, text, Lower(text), 0)

(***************************************************************************)
(* Guardrails (guardrails.py).  A GuardrailConfig is a record of its       *)
(* fields; dicts are sequences of entries in insertion order, patterns are *)
(* kept as their source text and compiled by Compile.                      *)
(***************************************************************************)
None == <<>>            \* Optional[str]: None, or Some(text)
Some(text) == <<text>>

HowWays == <<Lit("how"), Lit("can"), Cat(<<Lit("way"), Opt(Lit("s"))>>)>>
ToForOf == Opt(Alt(<<Lit("to"), Lit("for"), Lit("of")>>))
Colon == Cat(<<Star(Space), Opt(Lit(":")), Star(Space)>>)
DashOrSpace == Opt(Set({"-", " "}))
WordOrSlash == Set(WordChars \cup {"/", "+"})

\* re.compile, for the patterns of the default and of the test configuration
\* (matched case-insensitively: the literals are in lower case) and for the
\* sensitive-data patterns of process_response
Compile(src) ==
    CASE src = "(?i)how do I hack" -> Lit("how do i hack")
      [] src = "password is" -> Lit("password is")
      [] src = "credit card number" -> Lit("credit card number")
      [] src = "(?i).*\\b(?:how|can|ways?|method|technique|steps?)\\s+(?:to|for|of)?\\s*(?:hack|exploit|break|bypass|compromise).*" ->
            Cat(<<Star(Dot), WordB,
                  Alt(HowWays \o <<Lit("method"), Lit("technique"),
                                   Cat(<<Lit("step"), Opt(Lit("s"))>>)>>),
                  Plus(Space), ToForOf, Star(Space),
                  Alt(<<Lit("hack"), Lit("exploit"), Lit("break"), Lit("bypass"),
                        Lit("compromise")>>),
                  Star(Dot)>>)
      [] src = "(?i).*(?:what|recommend|suggest|tell\\s+me|give\\s+me).*\\b(?:password|credentials).*" ->
            Cat(<<Star(Dot),
                  Alt(<<Lit("what"), Lit("recommend"), Lit("suggest"),
                        Cat(<<Lit("tell"), Plus(Space), Lit("me")>>),
                        Cat(<<Lit("give"), Plus(Space), Lit("me")>>)>>),
                  Star(Dot), WordB, Alt(<<Lit("password"), Lit("credentials")>>),
                  Star(Dot)>>)
      [] src = "(?i).*(?:how|ways?|method|steps?)\\s+(?:to|for|of)?\\s*(?:avoid|bypass|trick|fool|get\\s+around|circumvent)\\s+(?:detection|security|authentication|verification|validation).*" ->
            Cat(<<Star(Dot),
                  Alt(<<Lit("how"), Cat(<<Lit("way"), Opt(Lit("s"))>>), Lit("method"),
                        Cat(<<Lit("step"), Opt(Lit("s"))>>)>>),
                  Plus(Space), ToForOf, Star(Space),
                  Alt(<<Lit("avoid"), Lit("bypass"), Lit("trick"), Lit("fool"),
                        Cat(<<Lit("get"), Plus(Space), Lit("around")>>),
                        Lit("circumvent")>>),
                  Plus(Space),
                  Alt(<<Lit("detection"), Lit("security"), Lit("authentication"),
                        Lit("verification"), Lit("validation")>>),
                  Star(Dot)>>)
      [] src = "(?i).*(?:how|can|ways?)\\s+(?:to|for|of)?\\s*(?:steal|obtain|get|extract)\\s+(?:data|information|credentials|password|key).*" ->
            Cat(<<Star(Dot), Alt(HowWays), Plus(Space), ToForOf, Star(Space),
                  Alt(<<Lit("steal"), Lit("obtain"), Lit("get"), Lit("extract")>>),
                  Plus(Space),
                  Alt(<<Lit("data"), Lit("information"), Lit("credentials"),
                        Lit("password"), Lit("key")>>),
                  Star(Dot)>>)
      [] src = "(?i)my\\s+password\\s+(?:is|should\\s+be|could\\s+be)\\s+\\S+" ->
            Cat(<<Lit("my"), Plus(Space), Lit("password"), Plus(Space),
                  Alt(<<Lit("is"), Cat(<<Lit("should"), Plus(Space), Lit("be")>>),
                        Cat(<<Lit("could"), Plus(Space), Lit("be")>>)>>),
                  Plus(Space), Plus(NonSpace)>>)
      [] src = "(?i)password\\s+(?:is|should\\s+be|could\\s+be)\\s+\\S+" ->
            Cat(<<Lit("password"), Plus(Space),
                  Alt(<<Lit("is"), Cat(<<Lit("should"), Plus(Space), Lit("be")>>),
                        Cat(<<Lit("could"), Plus(Space), Lit("be")>>)>>),
                  Plus(Space), Plus(NonSpace)>>)
      [] src = "(?i)(?:your|the|a)\\s+password\\s+(?:is|should|could|might|will|would)\\s+\\S+" ->
            Cat(<<Alt(<<Lit("your"), Lit("the"), Lit("a")>>), Plus(Space),
                  Lit("password"), Plus(Space),
                  Alt(<<Lit("is"), Lit("should"), Lit("could"), Lit("might"),
                        Lit("will"), Lit("would")>>),
                  Plus(Space), Plus(NonSpace)>>)
      [] src = "(?i)(?:credit\\s+card|card\\s+number|cvv|security\\s+code)\\s*:?\\s*\\d{3,}" ->
            Cat(<<Alt(<<Cat(<<Lit("credit"), Plus(Space), Lit("card")>>),
                        Cat(<<Lit("card"), Plus(Space), Lit("number")>>),
                        Lit("cvv"),
                        Cat(<<Lit("security"), Plus(Space), Lit("code")>>)>>),
                  Colon, Rep(Digit, 3, -1)>>)
      [] src = "(?i)(?:private|secret)\\s+key\\s*:?\\s*[\\w\\d/+]{5,}" ->
            Cat(<<Alt(<<Lit("private"), Lit("secret")>>), Plus(Space), Lit("key"),
                  Colon, Rep(WordOrSlash, 5, -1)>>)
      [] src = "(?i)access\\s+(?:token|key|credential)\\s*:?\\s*[\\w\\d]{5,}" ->
            Cat(<<Lit("access"), Plus(Space),
                  Alt(<<Lit("token"), Lit("key"), Lit("credential")>>),
                  Colon, Rep(Set(WordChars), 5, -1)>>)
      [] src = "(?i)api\\s+(?:key|token|secret)\\s*:?\\s*[\\w\\d]{5,}" ->
            Cat(<<Lit("api"), Plus(Space),
                  Alt(<<Lit("key"), Lit("token"), Lit("secret")>>),
                  Colon, Rep(Set(WordChars), 5, -1)>>)
      [] src = "(?i)(?:login|account)\\s+credential\\s*:?\\s*[\\w\\d]{3,}" ->
            Cat(<<Alt(<<Lit("login"), Lit("account")>>), Plus(Space),
                  Lit("credential"), Colon, Rep(Set(WordChars), 3, -1)>>)
      [] src = "\\b\\d{4}[- ]?\\d{4}[- ]?\\d{4}[- ]?\\d{4}\\b" ->
            Cat(<<WordB, Rep(Digit, 4, 4), DashOrSpace, Rep(Digit, 4, 4), DashOrSpace,
                  Rep(Digit, 4, 4), DashOrSpace, Rep(Digit, 4, 4), WordB>>)
      [] src = "\\b\\d{3}[- ]?\\d{2}[- ]?\\d{4}\\b" ->
            Cat(<<WordB, Rep(Digit, 3, 3), DashOrSpace, Rep(Digit, 2, 2), DashOrSpace,
                  Rep(Digit, 4, 4), WordB>>)
      [] src = "\\b(?:\\d{1,3}\\.){3}\\d{1,3}\\b" ->
            Cat(<<WordB, Rep(Cat(<<Rep(Digit, 1, 3), Lit(".")>>), 3, 3),
                  Rep(Digit, 1, 3), WordB>>)
      [] src = "\\b[A-Za-z0-9._%+-]+@[A-Za-z0-9.-]+\\.[A-Z|a-z]{2,}\\b" ->
            Cat(<<WordB, Plus(Set(Letters \cup Digits \cup {".", "_", "%", "+", "-"})),
                  Lit("@"), Plus(Set(Letters \cup Digits \cup {".", "-"})), Lit("."),
                  Rep(Set(Letters \cup {"|"}), 2, -1), WordB>>)

\* guardrails.py:16-39   GuardrailConfig.__init__
NewGuardrailConfig ==
    [ blocked_topics         |-> <<>>,
      topic_related_terms    |-> <<>>,
      filtered_patterns      |-> <<>>,
      max_response_length    |-> 300,
      enable_safety_checks   |-> TRUE,
      custom_responses       |-> <<>>,
      disclaimers            |-> [c \in {} |-> ""],
      high_risk_combinations |-> <<>> ]

\* guardrails.py:71-165   the values assigned by GuardrailConfig._set_default_config
DefaultValues ==
    [ blocked_topics |->
        <<"new_topic", "cryptocurrency", "hacking", "illegal activities",
          "personal data extraction", "discrimination", "harmful content">>,
      topic_related_terms |->
        << [topic |-> "cryptocurrency",
            terms |-> <<"bitcoin", "ethereum", "crypto", "token", "coin", "mining",
                        "exchange", "trading", "wallet", "profit", "altcoin",
                        "blockchain investment", "ICO">>],
           [topic |-> "hacking",
            terms |-> <<"exploit", "vulnerability", "unauthorized access",
                        "bypass security", "crack password", "penetration testing",
                        "exploit code", "backdoor", "security breach", "break into",
                        "infiltrate system", "circumvent protection">>],
           [topic |-> "illegal activities",
            terms |-> <<"black market", "smuggling", "theft", "fraud scheme",
                        "money laundering", "illegal download", "counterfeit",
                        "unauthorized copying", "piracy", "unlawful access",
                        "stealing", "illicit">>],
           [topic |-> "personal data extraction",
            terms |-> <<"dox", "personal information", "home address",
                        "private details", "contact information", "email address",
                        "phone number", "track someone", "locate person",
                        "find someone", "personal profile">>],
           [topic |-> "discrimination",
            terms |-> <<"racial bias", "gender discrimination", "stereotype",
                        "prejudice", "sexist", "racist", "discriminatory",
                        "bias against", "hate speech">>],
           [topic |-> "harmful content",
            terms |-> <<"self-harm", "suicide method", "dangerous chemical",
                        "weapon making", "explosives", "harmful instructions",
                        "dangerous experiment">>] >>,
      filtered_patterns |->
        << "(?i)my\\s+password\\s+(?:is|should\\s+be|could\\s+be)\\s+\\S+",
           "(?i)password\\s+(?:is|should\\s+be|could\\s+be)\\s+\\S+",
           "(?i)(?:your|the|a)\\s+password\\s+(?:is|should|could|might|will|would)\\s+\\S+",
           "(?i)(?:credit\\s+card|card\\s+number|cvv|security\\s+code)\\s*:?\\s*\\d{3,}",
           "(?i)(?:private|secret)\\s+key\\s*:?\\s*[\\w\\d/+]{5,}",
           "(?i)access\\s+(?:token|key|credential)\\s*:?\\s*[\\w\\d]{5,}",
           "(?i)api\\s+(?:key|token|secret)\\s*:?\\s*[\\w\\d]{5,}",
           "(?i)(?:login|account)\\s+credential\\s*:?\\s*[\\w\\d]{3,}" >>,
      max_response_length |-> 300,
      custom_responses |->
        << [pattern  |-> "(?i).*\\b(?:how|can|ways?|method|technique|steps?)\\s+(?:to|for|of)?\\s*(?:hack|exploit|break|bypass|compromise).*",
            response |-> "I cannot provide information about hacking, exploiting vulnerabilities, or unauthorized system access. Instead, I recommend exploring secure development practices and ethical cybersecurity resources if you're interested in security topics."],
           [pattern  |-> "(?i).*(?:what|recommend|suggest|tell\\s+me|give\\s+me).*\\b(?:password|credentials).*",
            response |-> "For security reasons, I cannot provide specific password recommendations or discuss credential management specifics. Please refer to your organization's security policies or consult trusted security frameworks like NIST for best practices on credential management."],
           [pattern  |-> "(?i).*(?:how|ways?|method|steps?)\\s+(?:to|for|of)?\\s*(?:avoid|bypass|trick|fool|get\\s+around|circumvent)\\s+(?:detection|security|authentication|verification|validation).*",
            response |-> "I cannot provide information on bypassing security measures or authentication systems. This kind of activity could be illegal and unethical. Instead, I'd be happy to discuss proper security implementation or legitimate troubleshooting approaches."],
           [pattern  |-> "(?i).*(?:how|can|ways?)\\s+(?:to|for|of)?\\s*(?:steal|obtain|get|extract)\\s+(?:data|information|credentials|password|key).*",
            response |-> "I cannot provide guidance on extracting data or credentials without authorization. Such activities are potentially illegal and unethical. I can instead discuss proper data access methods, API usage, or legitimate data integration approaches."] >>,
      disclaimers |->
        [c \in {"security", "blockchain", "technical"} |->
           CASE c = "security" -> "\n\nNote: This information is provided for educational purposes only. Always follow your organization's security policies, consult with security professionals, and ensure compliance with relevant regulations when implementing security measures."
             [] c = "blockchain" -> "\n\nNote: The blockchain technology landscape evolves rapidly. This information may change over time, and you should verify it against current documentation for your specific platform version."
             [] c = "technical" -> "\n\nNote: Implementation details may vary based on your specific environment, software versions, and organizational requirements. Always test in a non-production environment first."],
      high_risk_combinations |->
        << <<"hack", "tutorial", "step">>, <<"password", "crack", "tool">>,
           <<"bypass", "security", "how">>, <<"steal", "data", "method">>,
           <<"exploit", "vulnerability", "code">>, <<"mine", "bitcoin", "profit">>,
           <<"trade", "exchange", "crypto">> >> ]

\* guardrails.py:71-165   GuardrailConfig._set_default_config: every field
\* but enable_safety_checks is assigned
SetDefaultConfig(config) ==
    [f \in DOMAIN config |->
        IF f \in DOMAIN DefaultValues THEN DefaultValues[f] ELSE config[f]]

\* scripts/test_guardrails.py:15-24   the configuration of the guardrails test
TestConfig ==
    [NewGuardrailConfig EXCEPT
        !.blocked_topics = <<"hacking", "illegal activities">>,
        !.filtered_patterns = <<"password is", "credit card number">>,
        !.max_response_length = 100,
        !.custom_responses =
            << [pattern  |-> "(?i)how do I hack",
                response |-> "I cannot provide information on hacking."] >>,
        !.disclaimers =
            [c \in {"security"} |-> "Note: Always follow security best practices."]]

(***************************************************************************)
(* GuardrailProcessor.check_query: [should_process, custom_response].      *)
(***************************************************************************)
Allowed == [should_process |-> TRUE, custom_response |-> None]
Blocked(text) == [should_process |-> FALSE, custom_response |-> Some(text)]

BlockedTopicReply(topic) ==
    "I'm sorry, but I cannot provide information about " \o topic \o "."
CryptoReply ==
    "I'm sorry, but I cannot provide information about cryptocurrency trading or investments."
RelatedReply(topic) ==
    "I'm sorry, but I cannot provide information about topics related to " \o topic \o "."
CombinationReply ==
    "I cannot provide information on this topic as it appears to be requesting potentially harmful guidance."

\* guardrails.py:192   re.search(pattern, query, re.IGNORECASE)
CustomMatches(pattern, query) == Search(Compile(pattern), Lower(query))

\* guardrails.py:198   topic.lower() in query_lower
TopicMatches(topic, query_lower) == Contains(query_lower, Lower(topic))

\* guardrails.py:203-204   the cryptocurrency special case
CryptoMatches(query_lower) ==
    /\ \E w \in {"bitcoin", "crypto", "mining"} : Contains(query_lower, w)
    /\ \E w \in {"profit", "trading", "exchange", "invest"} : Contains(query_lower, w)

\* guardrails.py:210-217   the related terms found as words or phrases
MatchedTerms(terms, query_lower) ==
    {k \in 1..Len(terms) :
        Search(Cat(<<WordB, Lit(Lower(terms[k])), WordB>>), query_lower)}
RelatedMatches(terms, query_lower) == Cardinality(MatchedTerms(terms, query_lower)) >= 2

\* guardrails.py:223-224   the terms of a combination found in the query
MatchingTerms(combination, query_lower) ==
    {k \in 1..Len(combination) : Contains(query_lower, combination[k])}
CombinationMatches(combination, query_lower) ==
    Cardinality(MatchingTerms(combination, query_lower)) >= Len(combination) - 1

\* guardrails.py:222-228   the loop over high_risk_combinations, then the end
RECURSIVE CheckCombinations(_, _, _)
CheckCombinations(config, k, query_lower) ==
    IF k > Len(config.high_risk_combinations) THEN Allowed
    ELSE IF CombinationMatches(config.high_risk_combinations[k], query_lower)
         THEN Blocked(CombinationReply)
         ELSE CheckCombinations(config, k + 1, query_lower)

\* guardrails.py:209-219   the loop over topic_related_terms
RECURSIVE CheckRelated(_, _, _)
CheckRelated(config, k, query_lower) ==
    IF k > Len(config.topic_related_terms) THEN CheckCombinations(config, 1, query_lower)
    ELSE IF RelatedMatches(config.topic_related_terms[k].terms, query_lower)
         THEN Blocked(RelatedReply(config.topic_related_terms[k].topic))
         ELSE CheckRelated(config, k + 1, query_lower)

\* guardrails.py:203-206
CheckCrypto(config, query_lower) ==
    IF CryptoMatches(query_lower) THEN Blocked(CryptoReply)
    ELSE CheckRelated(config, 1, query_lower)

\* guardrails.py:197-200   the loop over blocked_topics
RECURSIVE CheckTopics(_, _, _)
CheckTopics(config, k, query_lower) ==
    IF k > Len(config.blocked_topics) THEN CheckCrypto(config, query_lower)
    ELSE IF TopicMatches(config.blocked_topics[k], query_lower)
         THEN Blocked(BlockedTopicReply(config.blocked_topics[k]))
         ELSE CheckTopics(config, k + 1, query_lower)

\* guardrails.py:191-194   the loop over custom_responses
RECURSIVE CheckCustom(_, _, _)
CheckCustom(config, k, query) ==
    IF k > Len(config.custom_responses) THEN CheckTopics(config, 1, Lower(query))
    ELSE IF CustomMatches(config.custom_responses[k].pattern, query)
         THEN Blocked(config.custom_responses[k].response)
         ELSE CheckCustom(config, k + 1, query)

\* a check_query that tests the blocked topics before the custom responses
RECURSIVE TopicsThenCustom(_, _, _)
TopicsThenCustom(config, k, query) ==
    IF k > Len(config.blocked_topics) THEN CheckCustom(config, 1, query)
    ELSE IF TopicMatches(config.blocked_topics[k], Lower(query))
         THEN Blocked(BlockedTopicReply(config.blocked_topics[k]))
         ELSE TopicsThenCustom(config, k + 1, query)
CheckQueryTopicsFirst(config, query) == TopicsThenCustom(config, 1, query)

\* guardrails.py:174-228   GuardrailProcessor.check_query
CheckQuery(config, query) == CheckCustom(config, 1, query)

(***************************************************************************)
(* GuardrailProcessor.process_response.                                    *)
(***************************************************************************)
TruncationSuffix == "... [Response truncated]"

\* guardrails.py:246-247
TruncateKeepsAll(config, processed) == processed
Truncate(config, processed) ==
    IF Len(processed) > config.max_response_length
    THEN Prefix(processed, config.max_response_length) \o TruncationSuffix
    ELSE processed

\* guardrails.py:251-255   the filtered patterns, one after the other
RECURSIVE ApplyFilters(_, _, _)
ApplyFilters(config, k, processed) ==
    IF k > Len(config.filtered_patterns) THEN processed
    ELSE ApplyFilters(config, k + 1,
            SubIgnoreCase(Compile(config.filtered_patterns[k]), "[FILTERED]", processed))

SecurityTerms ==
    {"security", "secure", "protection", "safety", "privacy", "firewall", "encrypt",
     "authentication", "password", "credential", "access control"}
BlockchainTerms ==
    {"blockchain", "hyperledger", "distributed ledger", "smart contract", "consensus",
     "chaincode", "fabric"}
TechnicalTerms ==
    {"implement", "deploy", "install", "configure", "setup", "integration", "docker"}

AnyTermIn(terms, text) == \E term \in terms : Contains(text, term)

\* guardrails.py:262-264   processed + '\n' unless it ends so, + the disclaimer
AddDisclaimer(config, category, processed) ==
    (IF EndsWith(processed, "\n") THEN processed ELSE processed \o "\n")
        \o Get(config.disclaimers, category, "")

SensitivePatterns ==
    << "\\b\\d{4}[- ]?\\d{4}[- ]?\\d{4}[- ]?\\d{4}\\b",
       "\\b\\d{3}[- ]?\\d{2}[- ]?\\d{4}\\b",
       "\\b(?:\\d{1,3}\\.){3}\\d{1,3}\\b",
       "\\b[A-Za-z0-9._%+-]+@[A-Za-z0-9.-]+\\.[A-Z|a-z]{2,}\\b" >>

\* guardrails.py:296-299
RECURSIVE Redact(_, _)
Redact(k, processed) ==
    IF k > Len(SensitivePatterns) THEN processed
    ELSE Redact(k + 1, Sub(Compile(SensitivePatterns[k]), "[REDACTED]", processed))

\* guardrails.py:230-301   GuardrailProcessor.process_response
ProcessResponseBlockchainFirst(config, query, response) ==
    LET combined_text == Lower(query) \o " " \o Lower(response)
        filtered == ApplyFilters(config, 1, Truncate(config, response))
    IN  IF AnyTermIn(BlockchainTerms, combined_text)
        THEN AddDisclaimer(config, "blockchain", filtered)
        ELSE IF AnyTermIn(SecurityTerms, combined_text)
        THEN AddDisclaimer(config, "security", filtered)
        ELSE IF AnyTermIn(TechnicalTerms, combined_text)
        THEN Redact(1, AddDisclaimer(config, "technical", filtered))
        ELSE Redact(1, filtered)
ProcessResponse(config, query, response) ==
    LET combined_text == Lower(query) \o " " \o Lower(response)
        filtered == ApplyFilters(config, 1, Truncate(config, response))
    IN  IF AnyTermIn(SecurityTerms, combined_text)
        THEN AddDisclaimer(config, "security", filtered)
        ELSE IF AnyTermIn(BlockchainTerms, combined_text)
        THEN AddDisclaimer(config, "blockchain", filtered)
        ELSE IF AnyTermIn(TechnicalTerms, combined_text)
        THEN Redact(1, AddDisclaimer(config, "technical", filtered))
        ELSE Redact(1, filtered)

(***************************************************************************)
(* Pipeline state: a mapping from keys to values.  A value is the id of    *)
(* its writer: 0 for the caller of run_pipeline, i for the i-th agent,     *)
(* Len(agents)+1 for the coordinator itself.                               *)
(***************************************************************************)
EmptyMap == [k \in {} |-> 0]

NoError == 0   \* Python None in a processing_history entry's error field

ConstMap(keys, v) == [k \in keys |-> v]

\* agent_coordinator.py:63   {**current_data, **agent_result}
MergeDropsResult(cur, res) == cur
MergeReplaces(cur, res) == res
Merge(cur, res) ==
    [k \in (DOMAIN cur) \cup (DOMAIN res) |->
        IF k \in DOMAIN res THEN res[k] ELSE cur[k]]

(***************************************************************************)
(* Agents.  BaseAgent.process is abstract; an agent of the model is its    *)
(* name (its position) and what its process does when awaited:             *)
(*   "ok"      returns a dict with the keys `out`                          *)
(*   "raise"   raises an Exception                                         *)
(*   "none"    returns None (the body of the abstract method)              *)
(*   "no_get"  returns an object with items() and item assignment but no   *)
(*             get(): the coordinator fails at line 55, before the append  *)
(*   "no_keys" returns an object with items(), item assignment and get()   *)
(*             that cannot be unpacked by **: the coordinator fails at     *)
(*             line 63, after the append                                   *)
(***************************************************************************)
AgentKinds ==
    { [behav |-> "ok",      out |-> {"a"}],
      [behav |-> "ok",      out |-> {"b", "query"}],
      [behav |-> "ok",      out |-> {"a", "error"}],
      [behav |-> "raise",   out |-> {}],
      [behav |-> "none",    out |-> {}],
      [behav |-> "no_get",  out |-> {"a"}],
      [behav |-> "no_keys", out |-> {"b"}] }

InitialInputs ==
    { ConstMap({"query", "chat_history"}, 0),
      ConstMap({"query", "a"}, 0),
      ConstMap({"query", "error"}, 0) }

\* base_agent.py:54   result = await self.process(input_data)
\* [raised, value]: whether process raised, and the dict it returned.
Process(agent, i, input_data) ==
    CASE agent.behav = "raise" -> [raised |-> TRUE,  isdict |-> FALSE, value |-> EmptyMap]
      [] agent.behav = "none"  -> [raised |-> FALSE, isdict |-> FALSE, value |-> EmptyMap]
      [] OTHER                 -> [raised |-> FALSE, isdict |-> TRUE,
                                   value |-> ConstMap(agent.out, i)]

\* base_agent.py:74-78   the mapping returned by the except branch
ErrorResult(i) == ConstMap({"error", "agent", "processing_time"}, i)

\* base_agent.py:34-78   BaseAgent.execute_with_logging
\* [raised, value]: whether the call raised, and the mapping it returned.
\* result.items() (line 62) raises inside the try when process returned None.
ExecuteWithLoggingNoHandler(agent, i, input_data) ==
    LET p == Process(agent, i, input_data)
    IN  IF p.raised \/ ~p.isdict
        THEN [raised |-> TRUE, value |-> EmptyMap]
        ELSE [raised |-> FALSE,
              value  |-> Merge(p.value, ConstMap({"processing_time"}, i))]
ExecuteWithLogging(agent, i, input_data) ==
    LET p == Process(agent, i, input_data)
    IN  IF p.raised \/ ~p.isdict
        THEN [raised |-> FALSE, value |-> ErrorResult(i)]
        ELSE [raised |-> FALSE,
              value  |-> Merge(p.value, ConstMap({"processing_time"}, i))]

N == Len(agents)
CoordinatorId == N + 1

\* agent_coordinator.py:52-56   the processing_history entry of one agent
HistoryEntry(i, agent_result) ==
    [agent |-> i, error |-> Get(agent_result, "error", NoError)]

\* agent_coordinator.py:73-78   the mapping returned by the except branch
PipelineErrorKeepsState ==
    Merge(current_data, ConstMap({"error", "processing_history"}, CoordinatorId))
PipelineError == ConstMap({"error", "processing_history"}, CoordinatorId)

(***************************************************************************)
(* run_pipeline, one action per stretch of code between suspension points. *)
(***************************************************************************)
RECURSIVE SeqsUpTo(_, _)
SeqsUpTo(S, n) ==
    IF n = 0 THEN {<<>>}
    ELSE LET shorter == SeqsUpTo(S, n - 1)
         IN  shorter \cup {Append(s, x) : s \in {t \in shorter : Len(t) = n - 1}, x \in S}

InitPipeline ==
    /\ agents \in SeqsUpTo(AgentKinds, MaxAgents)
    /\ initial_input \in InitialInputs
    /\ pc = "idle"
    /\ idx = 0
    /\ current_data = EmptyMap
    /\ processing_history = <<>>
    /\ running = {}
    /\ received = <<>>
    /\ results = <<>>
    /\ ret = EmptyMap

\* agent_coordinator.py:36-40   entry of run_pipeline
RunPipeline ==
    /\ pc = "idle"
    /\ current_data' = initial_input
    /\ processing_history' = <<>>
    /\ idx' = 1
    /\ pc' = "loop"
    /\ UNCHANGED <<agents, initial_input, running, received, results, ret>>

\* agent_coordinator.py:43-48   next iteration: call execute_with_logging
InvokeAgent ==
    /\ pc = "loop"
    /\ idx <= N
    /\ running' = running \cup {idx}
    /\ received' = Append(received, current_data)
    /\ pc' = "await"
    /\ UNCHANGED <<agents, initial_input, idx, current_data, processing_history,
                   results, ret>>

\* agent_coordinator.py:48-63, 73-78   the awaited call returns; the rest of
\* the iteration, or the except branch when something in it raises
AgentReturns ==
    /\ pc = "await"
    /\ LET r == ExecuteWithLogging(agents[idx], idx, received[idx])
           b == agents[idx].behav
       IN  /\ running' = running \ {idx}
           /\ IF r.raised \/ b = "no_get"
              THEN /\ results' = IF r.raised THEN results ELSE Append(results, r.value)
                   /\ ret' = PipelineError
                   /\ pc' = "done"
                   /\ UNCHANGED <<current_data, processing_history, idx>>
              ELSE IF b = "no_keys"
              THEN /\ processing_history' =
                        Append(processing_history, HistoryEntry(idx, r.value))
                   /\ results' = Append(results, r.value)
                   /\ ret' = PipelineError
                   /\ pc' = "done"
                   /\ UNCHANGED <<current_data, idx>>
              ELSE /\ processing_history' =
                        Append(processing_history, HistoryEntry(idx, r.value))
                   /\ results' = Append(results, r.value)
                   /\ current_data' = Merge(current_data, r.value)
                   /\ idx' = idx + 1
                   /\ pc' = "loop"
                   /\ UNCHANGED ret
    /\ UNCHANGED <<agents, initial_input, received>>

\* agent_coordinator.py:65-71   after the loop: attach the history, return
ReturnResult ==
    /\ pc = "loop"
    /\ idx > N
    /\ ret' = Merge(current_data, ConstMap({"processing_history"}, CoordinatorId))
    /\ pc' = "done"
    /\ UNCHANGED <<agents, initial_input, idx, current_data, processing_history,
                   running, received, results>>

IdlePipeline ==
    /\ agents = <<>>
    /\ initial_input = EmptyMap
    /\ pc = "idle"
    /\ idx = 0
    /\ current_data = EmptyMap
    /\ processing_history = <<>>
    /\ running = {}
    /\ received = <<>>
    /\ results = <<>>
    /\ ret = EmptyMap

(***************************************************************************)
(* The guardrail processor applied to one query and one response, as       *)
(* scripts/test_guardrails.py:70-74 and conversation.py:105-143 apply it:  *)
(* check_query first, process_response when the query was let through.     *)
(***************************************************************************)
ExampleQueries ==
    { "How do I install Hyperledger Fabric?",
      "How do I use Hyperledger for hacking?",
      "How do I hack into a blockchain?",
      "How do I hack with hacking tools?",
      "How secure is Hyperledger?",
      "Tell me about Hyperledger",
      "Tell me about it",
      "Show me a security overview",
      "What are security best practices for Hyperledger?" }

Vocabulary == <<"How to", "hack", "hacking", "bitcoin profit", "exploit", "vulnerability">>

RECURSIVE WordQueries(_)
WordQueries(n) ==
    IF n = 0 THEN {""}
    ELSE LET shorter == WordQueries(n - 1)
         IN  shorter \cup
             {(IF q = "" THEN "" ELSE q \o " ") \o Vocabulary[k] :
                 q \in shorter, k \in 1..Len(Vocabulary)}

ExampleResponses ==
    { "To install Hyperledger Fabric, you need to follow these steps...",
      "Hyperledger is secure, but make sure your password is strong123!",
      "Reach the peer at 10.0.0.1 or ask a.b@c.org",
      "Deploy it with docker.",
      "It is a ledger.\n" }

\* responses of the lengths around the configured limit, and a long one
SizedResponses(config) ==
    {Times("A", n) :
        n \in {m \in (config.max_response_length - Margin)..
                      (config.max_response_length + Margin) : m >= 0} \cup {400}}

GuardConfigs ==
    { SetDefaultConfig(NewGuardrailConfig), TestConfig, NewGuardrailConfig,
      [NewGuardrailConfig EXCEPT !.high_risk_combinations = <<<<"exploit">>>>] }
    \cup {[TestConfig EXCEPT !.max_response_length = m] : m \in {-5, 0, 20}}

InitGuard ==
    /\ gConfig \in GuardConfigs
    /\ \/ gQuery \in WordQueries(MaxWords) /\ gResponse = "It is a ledger."
       \/ gQuery \in ExampleQueries
          /\ gResponse \in ExampleResponses \cup SizedResponses(gConfig)
    /\ gCheck = None
    /\ gProcessed = None

IdleGuard ==
    /\ gConfig = NewGuardrailConfig
    /\ gQuery = ""
    /\ gResponse = ""
    /\ gCheck = None
    /\ gProcessed = None

\* scripts/test_guardrails.py:70, conversation.py:105   processor.check_query(query)
CheckQueryCall ==
    /\ gCheck = None
    /\ gCheck' = Some(CheckQuery(gConfig, gQuery))
    /\ UNCHANGED <<gConfig, gQuery, gResponse, gProcessed>>

\* scripts/test_guardrails.py:72-74, conversation.py:143
\* processor.process_response(query, response), for a query let through
ProcessResponseCall ==
    /\ gCheck # None
    /\ gCheck[1].should_process
    /\ gProcessed = None
    /\ gProcessed' = Some(ProcessResponse(gConfig, gQuery, gResponse))
    /\ UNCHANGED <<gConfig, gQuery, gResponse, gCheck>>

(***************************************************************************)
(* The HTTP API process: api.py, routes/main.py, conversation.py.          *)
(***************************************************************************)
\* what sits at one of the default guardrail paths: no file, a file that is
\* not a YAML mapping, or a YAML mapping (body: the keys it holds)
NoFile == [kind |-> "missing", body |-> EmptyMap]
BadFile == [kind |-> "unreadable", body |-> EmptyMap]
Mapping(body) == [kind |-> "mapping", body |-> body]
\* an empty file (safe_load gives None), a YAML list of other things than the
\* keys, and a YAML mapping whose blocked_topics is a number (body: the
\* other keys it holds)
EmptyFile == [kind |-> "empty", body |-> EmptyMap]
SequenceFile == [kind |-> "sequence", body |-> EmptyMap]
UnsizedTopics(body) == [kind |-> "unsized", body |-> body]

HackResponses ==
    << [pattern |-> "(?i)how do I hack",
        response |-> "I cannot provide information on hacking."] >>

GuardrailFiles ==
    { NoFile, BadFile,
      Mapping(EmptyMap),
      Mapping([max_response_length |-> -5]),
      Mapping([blocked_topics |-> <<"hacking">>, max_response_length |-> 20,
               custom_responses |-> HackResponses]) }

\* guardrails.py:48-63, api.py:45-58   an attribute is assigned when its key is there
Override(config, keys, data) ==
    [k \in DOMAIN config |->
        IF k \in keys \cap DOMAIN data THEN data[k] ELSE config[k]]

\* guardrails.py:65-66   len(self.blocked_topics), len(self.topic_related_terms)
\* in the log calls that end the try block: they raise when the file gave
\* one of the two a value without a length
LoggingWorks(file) == file.kind # "unsized"

\* guardrails.py:41-69   GuardrailConfig.load_from_file
\* [not_found, config]: whether FileNotFoundError left the call, and the
\* configuration afterwards.  Every Exception, FileNotFoundError included, is
\* caught at line 67 and answered with _set_default_config.
LoadFromFile(config, file) ==
    IF file.kind = "sequence"
    THEN [not_found |-> FALSE, config |-> config]
    ELSE IF file.kind \in {"mapping", "unsized"}
    THEN LET assigned == Override(config, DOMAIN config, file.body)
         IN  [not_found |-> FALSE,
              config |-> IF LoggingWorks(file) THEN assigned
                         ELSE SetDefaultConfig(assigned)]
    ELSE [not_found |-> FALSE, config |-> SetDefaultConfig(config)]

\* conversation.py:62-74   the loop over default_paths
RECURSIVE LoadFromDefaultPaths(_, _, _)
LoadFromDefaultPaths(config, files, k) ==
    IF k > Len(files) THEN SetDefaultConfig(config)
    ELSE LET loaded == LoadFromFile(config, files[k])
         IN  IF loaded.not_found
             THEN LoadFromDefaultPaths(loaded.config, files, k + 1)
             ELSE loaded.config

\* a GuardrailProcessor: its config, and id to tell the instances apart
\* (0: the one built at start, k: the one built by the k-th update)
Processor(id, config) == [id |-> id, config |-> config]

\* conversation.py:44-79   initialize_guardrails()
InitializeGuardrails(files) ==
    Processor(0, LoadFromDefaultPaths(NewGuardrailConfig, files, 1))

\* the files load_from_file is tried on: the keys a YAML mapping holds are
\* any of three
FileValues ==
    [max_response_length |-> 20, enable_safety_checks |-> FALSE,
     blocked_topics |-> <<"hacking">>]

Restrict(f, keys) == [k \in keys |-> f[k]]

LoadFiles ==
    {NoFile, BadFile, EmptyFile, SequenceFile}
    \cup {Mapping(Restrict(FileValues, keys)) : keys \in SUBSET DOMAIN FileValues}
    \cup {UnsizedTopics(Restrict(FileValues, keys)) :
             keys \in SUBSET {"max_response_length", "enable_safety_checks"}}

\* the configuration objects it is called on: a new one (conversation.py:46),
\* and ones that hold values already
LoadConfigs ==
    { NewGuardrailConfig, TestConfig, SetDefaultConfig(NewGuardrailConfig),
      [TestConfig EXCEPT !.enable_safety_checks = FALSE] }

InitLoad ==
    /\ load_config \in LoadConfigs
    /\ load_file \in LoadFiles
    /\ load_result = None

IdleLoad ==
    /\ load_config = NewGuardrailConfig
    /\ load_file = NoFile
    /\ load_result = None

\* conversation.py:49, 65   config.load_from_file(path)
LoadFromFileCall ==
    /\ load_result = None
    /\ load_result' = Some(LoadFromFile(load_config, load_file).config)
    /\ UNCHANGED <<load_config, load_file>>

\* api.py:38   the JSON bodies sent to /update_guardrails
UpdateBodies ==
    { EmptyMap,
      [blocked_topics |-> <<"fabric">>],
      [max_response_length |-> -5],
      [custom_responses |-> HackResponses, max_response_length |-> 20] }

UpdateKeys ==
    {"blocked_topics", "filtered_patterns", "max_response_length",
     "enable_safety_checks", "custom_responses", "disclaimers"}

ApiQueries ==
    { "How do I hack into a blockchain?",
      "How do I install Hyperledger Fabric?",
      "Is bitcoin trading safe?" }

\* what the generation model may produce
ModelOutputs == {"Fabric is a permissioned ledger framework.", "Yes."}

SessionIds == {"1", "default"}

NoReply ==
    [endpoint |-> "", query |-> "", status |-> 0, content |-> "", metadata |-> "",
     processor |-> 0, updates |-> 0,
     before |-> [model_calls |-> 0, retrieval_calls |-> 0, pipeline_runs |-> 0]]

Reply(endpoint, query, status, content, metadata) ==
    [endpoint |-> endpoint, query |-> query, status |-> status, content |-> content,
     metadata |-> metadata,
     processor |-> routes_processor.id,
     updates |-> main_guardrails_processor.id,
     before |-> [model_calls |-> model_calls, retrieval_calls |-> retrieval_calls,
                 pipeline_runs |-> pipeline_runs]]

\* session_history (not part of the sources): get_session_history(id) with
\* add_user_message and add_ai_message appending in order
AddExchange(store, session_id, query, answer) ==
    [store EXCEPT ![session_id] = @ \o <<[by |-> "user", text |-> query],
                                         [by |-> "ai", text |-> answer]>>]

\* the layouts of the three default paths tried at start
FileLayouts ==
    {<<f, NoFile, NoFile>> : f \in GuardrailFiles}
    \cup {<<NoFile, Mapping([max_response_length |-> -5]), NoFile>>}

\* the configurations a processor of this process can hold
ApiConfigs ==
    {InitializeGuardrails(files).config : files \in FileLayouts}
    \cup {Override(NewGuardrailConfig, UpdateKeys, data) : data \in UpdateBodies}

\* check_query and process_response read their arguments and the configuration
\* only: their values for the requests of this process, computed once
CheckQueryOf ==
    [config \in ApiConfigs |-> [query \in ApiQueries |-> CheckQuery(config, query)]]
ProcessResponseOf ==
    [config \in ApiConfigs |->
        [query \in ApiQueries |->
            [response \in ModelOutputs |-> ProcessResponse(config, query, response)]]]

\* routes/main.py:48, 87, 130   guardrails_processor.check_query(...)
PreCheckLetsThrough(processor, query) == Allowed
PreCheck(processor, query) == CheckQueryOf[processor.config][query]

\* generate_response with the user message stored before the generation
GenerateResponseStoresQueryFirst(session_id, query, output, fails) ==
    LET verdict == CheckQueryOf[singleton_guardrails.config][query]
        asked == [session_history EXCEPT
                     ![session_id] = Append(@, [by |-> "user", text |-> query])]
    IN  IF ~verdict.should_process
        THEN [raised |-> FALSE, response |-> verdict.custom_response[1],
              history |-> AddExchange(session_history, session_id, query,
                                      verdict.custom_response[1]),
              retrievals |-> 0, generations |-> 0]
        ELSE IF fails
        THEN [raised |-> TRUE, response |-> "", history |-> asked,
              retrievals |-> 1, generations |-> 0]
        ELSE LET processed == ProcessResponseOf[singleton_guardrails.config][query][output]
             IN  [raised |-> FALSE, response |-> processed,
                  history |-> AddExchange(session_history, session_id, query, processed),
                  retrievals |-> 1, generations |-> 1]

\* conversation.py:97-149   generate_response(session_id, model, tokenizer, query, vectordb)
\* `output` is what the model streams; `fails` whether tokenizing or starting
\* the generation raises (lines 124-134).
GenerateResponse(session_id, query, output, fails) ==
    LET processor == singleton_guardrails
        verdict == CheckQueryOf[processor.config][query]
    IN  IF ~verdict.should_process
        THEN [raised |-> FALSE, response |-> verdict.custom_response[1],
              history |-> AddExchange(session_history, session_id, query,
                                      verdict.custom_response[1]),
              retrievals |-> 0, generations |-> 0]
        ELSE IF fails
        THEN [raised |-> TRUE, response |-> "", history |-> session_history,
              retrievals |-> 1, generations |-> 0]
        ELSE LET processed == ProcessResponseOf[processor.config][query][output]
             IN  [raised |-> FALSE, response |-> processed,
                  history |-> AddExchange(session_history, session_id, query, processed),
                  retrievals |-> 1, generations |-> 1]

\* the effects of one generate_response call g, and the record of the call
Called(g, session_id, query, output) ==
    /\ model_calls' = model_calls + g.generations
    /\ retrieval_calls' = retrieval_calls + g.retrievals
    /\ session_history' = g.history
    /\ legacy_call' =
          Some([session_id |-> session_id, query |-> query, output |-> output,
                raised |-> g.raised, response |-> g.response,
                before |-> [history |-> session_history, model_calls |-> model_calls,
                            retrieval_calls |-> retrieval_calls],
                after |-> [history |-> g.history,
                           model_calls |-> model_calls + g.generations,
                           retrieval_calls |-> retrieval_calls + g.retrievals]])

\* conversation.py:97   generate_response called by another caller than the
\* routes (which call it only for the queries their own pre-check allowed)
GenerateResponseCall ==
    /\ requests < MaxRequests
    /\ \E query \in ApiQueries, session_id \in SessionIds,
          output \in ModelOutputs, fails \in BOOLEAN :
          Called(GenerateResponse(session_id, query, output, fails),
                 session_id, query, output)
    /\ requests' = requests + 1
    /\ reply' = NoReply      \* the last thing the process did is no request
    /\ UNCHANGED <<default_files, routes_processor, singleton_guardrails,
                   main_guardrails_processor, pipeline_runs, rag_history,
                   pipeline_inputs>>

\* the legacy path of /query and /text-query after the pre-check
Legacy(endpoint, session_id, query, output, fails) ==
    \E verdict \in {PreCheck(routes_processor, query)} :
        IF ~verdict.should_process
        THEN /\ reply' = Reply(endpoint, query, 200, verdict.custom_response[1], "none")
             /\ UNCHANGED <<model_calls, retrieval_calls, session_history, legacy_call>>
        ELSE /\ Called(GenerateResponse(session_id, query, output, fails),
                       session_id, query, output)
             /\ reply' = IF legacy_call'[1].raised
                         THEN Reply(endpoint, query, 500, "", "none")
                         ELSE Reply(endpoint, query, 200, legacy_call'[1].response, "none")

\* routes/main.py:44-74   POST /query
AnswerQuery ==
    /\ requests < MaxRequests
    /\ \E query \in ApiQueries, output \in ModelOutputs, fails \in BOOLEAN :
          Legacy("/query", "1", query, output, fails)
    /\ requests' = requests + 1
    /\ UNCHANGED <<default_files, routes_processor, singleton_guardrails,
                   main_guardrails_processor, pipeline_runs, rag_history,
                   pipeline_inputs>>

\* routes/main.py:122-142   POST /text-query
TextQuery ==
    /\ requests < MaxRequests
    /\ \E query \in ApiQueries, session_id \in SessionIds,
          output \in ModelOutputs, fails \in BOOLEAN :
          Legacy("/text-query", session_id, query, output, fails)
    /\ requests' = requests + 1
    /\ UNCHANGED <<default_files, routes_processor, singleton_guardrails,
                   main_guardrails_processor, pipeline_runs, rag_history,
                   pipeline_inputs>>

\* multi_agent_rag.py:68-72   the initial_input of the pipeline; chat_history
\* is the facade's one list, whatever the session_id
FacadeInput(query, session_id) ==
    [query |-> query, session_id |-> session_id, chat_history |-> rag_history]

\* multi_agent_rag.py:78-84   response = result.get("response", "") is appended
UpdateUnlessEmpty(history, query, response) ==
    IF response = "" THEN history
    ELSE Append(history, [user |-> query, assistant |-> response])
UpdateHistory(history, query, response) ==
    Append(history, [user |-> query, assistant |-> response])

\* routes/main.py:77-118   POST /query/multi-agent
\* session_id is the id of the request (item.id).
\* The pipeline behind multi_agent_system.generate_response is the subject
\* of the specification Spec; here it is one search of the index, one call
\* of the model unless an agent failed before (generated = FALSE), and the
\* response the pipeline state ends with ("" when there is none).
AnswerQueryMultiAgent ==
    /\ requests < MaxRequests
    /\ \E query \in ApiQueries, session_id \in SessionIds,
          output \in ModelOutputs, generated \in BOOLEAN :
          LET verdict == PreCheck(routes_processor, query)
              response == IF generated THEN output ELSE ""
          IN  IF ~verdict.should_process
              THEN /\ reply' = Reply("/query/multi-agent", query, 200,
                                     verdict.custom_response[1], "guardrails_blocked")
                   /\ UNCHANGED <<model_calls, retrieval_calls, pipeline_runs,
                                  rag_history, pipeline_inputs>>
              ELSE /\ reply' = Reply("/query/multi-agent", query, 200, response,
                                     "pipeline")
                   /\ pipeline_runs' = pipeline_runs + 1
                   /\ retrieval_calls' = retrieval_calls + 1
                   /\ model_calls' = model_calls + (IF generated THEN 1 ELSE 0)
                   /\ pipeline_inputs' =
                         Append(pipeline_inputs, FacadeInput(query, session_id))
                   /\ rag_history' = UpdateHistory(rag_history, query, response)
    /\ requests' = requests + 1
    /\ UNCHANGED <<default_files, routes_processor, singleton_guardrails,
                   main_guardrails_processor, session_history, legacy_call>>

\* api.py:35-70   POST /update_guardrails
UpdateGuardrails ==
    /\ requests < MaxRequests
    /\ \E data \in UpdateBodies :
          LET config == Override(NewGuardrailConfig, UpdateKeys, data)
              new_processor == Processor(main_guardrails_processor.id + 1, config)
          IN  /\ main_guardrails_processor' = new_processor
              /\ reply' = Reply("/update_guardrails", "", 200, "success", "none")
    /\ requests' = requests + 1
    /\ UNCHANGED <<default_files, routes_processor, singleton_guardrails, model_calls,
                   retrieval_calls, pipeline_runs, session_history, rag_history,
                   pipeline_inputs, legacy_call>>

\* the process once api.py is imported: conversation.py:39-42, routes/main.py:15, api.py:9
InitApi ==
    /\ default_files \in FileLayouts
    /\ singleton_guardrails = InitializeGuardrails(default_files)
    /\ routes_processor = singleton_guardrails
    /\ main_guardrails_processor = routes_processor
    /\ model_calls = 0
    /\ retrieval_calls = 0
    /\ pipeline_runs = 0
    /\ session_history = [id \in SessionIds |-> <<>>]
    /\ rag_history = <<>>
    /\ pipeline_inputs = <<>>
    /\ legacy_call = None
    /\ reply = NoReply
    /\ requests = 0

IdleApi ==
    /\ default_files = <<>>
    /\ singleton_guardrails = Processor(0, NewGuardrailConfig)
    /\ routes_processor = singleton_guardrails
    /\ main_guardrails_processor = singleton_guardrails
    /\ model_calls = 0
    /\ retrieval_calls = 0
    /\ pipeline_runs = 0
    /\ session_history = [id \in SessionIds |-> <<>>]
    /\ rag_history = <<>>
    /\ pipeline_inputs = <<>>
    /\ legacy_call = None
    /\ reply = NoReply
    /\ requests = 0

(***************************************************************************)
(* The streaming part of generate_response (conversation.py:124-149): the  *)
(* generation runs on a thread of its own and hands its text over through  *)
(* the queue of a TextIteratorStreamer, built without a timeout.           *)
(***************************************************************************)
\* the streamer's stop signal, put on the queue by its end()
StopSignal == [stop |-> TRUE]
Text(piece) == [stop |-> FALSE, text |-> piece]

TextPieces == {"Fabric", " uses", " peers"}

StreamQuery == "Tell me about it"

\* conversation.py:136-137   response += token
AccumulateInFront(so_far, token) == token \o so_far
Accumulate(so_far, token) == so_far \o token

InitStream ==
    /\ to_generate \in SeqsUpTo(TextPieces, MaxTokens)
    /\ put_count = 0
    /\ text_queue = <<>>
    /\ worker = "not started"
    /\ caller = "starting"
    /\ stream_response = ""
    /\ stream_history = <<>>
    /\ returned = None

IdleStream ==
    /\ to_generate = <<>>
    /\ put_count = 0
    /\ text_queue = <<>>
    /\ worker = "not started"
    /\ caller = "idle"
    /\ stream_response = ""
    /\ stream_history = <<>>
    /\ returned = None

\* conversation.py:124-135   the streamer is built, the thread started
StartThread ==
    /\ caller = "starting"
    /\ worker' = "generating"
    /\ caller' = "consuming"
    /\ UNCHANGED <<to_generate, put_count, text_queue, stream_response, stream_history,
                   returned>>

\* conversation.py:133   model.generate on the thread: the next piece of text
\* is put on the queue
WorkerPut ==
    /\ worker = "generating"
    /\ put_count < Len(to_generate)
    /\ put_count' = put_count + 1
    /\ text_queue' = Append(text_queue, Text(to_generate[put_count + 1]))
    /\ UNCHANGED <<to_generate, worker, caller, stream_response, stream_history, returned>>

\* model.generate ends: the streamer's end() puts the stop signal
WorkerEnd ==
    /\ worker = "generating"
    /\ put_count = Len(to_generate)
    /\ text_queue' = Append(text_queue, StopSignal)
    /\ worker' = "ended"
    /\ UNCHANGED <<to_generate, put_count, caller, stream_response, stream_history, returned>>

\* model.generate raises on its thread: the thread dies, the exception stays
\* in it and nothing is put on the queue
WorkerRaises ==
    /\ worker = "generating"
    /\ worker' = "died"
    /\ UNCHANGED <<to_generate, put_count, text_queue, caller, stream_response,
                   stream_history, returned>>

\* conversation.py:136-138   one turn of `for token in streamer`: the wait
\* for the next entry of the queue (no timeout), then the entry
NextToken ==
    /\ caller = "consuming"
    /\ text_queue # <<>>
    /\ text_queue' = Tail(text_queue)
    /\ IF Head(text_queue).stop
       THEN caller' = "processing" /\ UNCHANGED stream_response
       ELSE stream_response' = Accumulate(stream_response, Head(text_queue).text)
            /\ UNCHANGED caller
    /\ UNCHANGED <<to_generate, put_count, worker, stream_history, returned>>

\* conversation.py:139-149   after the loop: process_response, the two
\* messages, return
ProcessAndStore ==
    /\ caller = "processing"
    /\ LET processed_response ==
              ProcessResponse(SetDefaultConfig(NewGuardrailConfig), StreamQuery,
                              stream_response)
       IN  /\ stream_history' = stream_history \o
                                   <<[by |-> "user", text |-> StreamQuery],
                                     [by |-> "ai", text |-> processed_response]>>
           /\ returned' = Some(processed_response)
    /\ caller' = "returned"
    /\ UNCHANGED <<to_generate, put_count, text_queue, worker, stream_response>>

(***************************************************************************)
(* RetrievalAgent (agents/retrieval_agent.py).  Scores are in hundredths.  *)
(***************************************************************************)
\* what the index hands back: (document, score) pairs
Doc(page_content, metadata, score) ==
    [page_content |-> page_content, metadata |-> metadata, score |-> score]

IndexedDocs ==
    { Doc("Fabric peer nodes", [source |-> "a.pdf", title |-> "A"], 30),
      Doc("fabric orderer", [source |-> "b.pdf"], 30),
      Doc("ledger", EmptyMap, 20),
      Doc("peer of fabric", [source |-> "c.pdf", title |-> "C"], 25) }

\* the sequences without repetition of at most n elements of S
RECURSIVE DistinctSeqs(_, _)
DistinctSeqs(S, n) ==
    IF n = 0 THEN {<<>>}
    ELSE LET shorter == DistinctSeqs(S, n - 1)
         IN  shorter \cup
             UNION {{Append(q, x) : x \in S \ {q[i] : i \in 1..Len(q)}} :
                       q \in {p \in shorter : Len(p) = n - 1}}

\* the outcome of one similarity_search_with_score call
IndexError == [error |-> TRUE, results |-> <<>>]
IndexReturns(pairs) == [error |-> FALSE, results |-> pairs]

FirstAnswers == {IndexError} \cup {IndexReturns(r) : r \in DistinctSeqs(IndexedDocs, MaxResults)}
LaterAnswers ==
    { IndexError, IndexReturns(<<>>),
      IndexReturns(<<Doc("ledger", EmptyMap, 20),
                     Doc("peer of fabric", [source |-> "c.pdf", title |-> "C"], 25)>>) }

RetrievalInputs ==
    LET plain ==
          { [query |-> "how does fabric work", query_type |-> qt, key_terms |-> kt] :
              qt \in {"factual", "other"},
              kt \in {<<>>, <<"fabric">>, <<"fabric", "peer">>} }
    IN  plain \cup
        { [query |-> i.query, query_type |-> i.query_type, key_terms |-> i.key_terms,
           expanded_query |-> "how does hyperledger fabric work"] : i \in plain }

\* retrieval_agent.py:44   the expanded query when there is one, else the query
OriginalQuery(input_data) == Get(input_data, "query", "")
ChosenQuery(input_data) ==
    Get(input_data, "expanded_query", Get(input_data, "query", ""))

\* retrieval_agent.py:53-63
KValues(query_type) ==
    CASE query_type = "explanatory" -> 5
      [] query_type = "definitional" -> 3
      [] query_type = "comparative" -> 6
      [] query_type = "causal" -> 4
      [] query_type = "factual" -> 3
      [] OTHER -> 4

\* " ".join(key_terms), "\n\n".join(documents)
RECURSIVE Join(_, _)
Join(strings, sep) ==
    IF strings = <<>> THEN ""
    ELSE IF Len(strings) = 1 THEN strings[1]
    ELSE strings[1] \o sep \o Join(Tail(strings), sep)

\* retrieval_agent.py:112-129   _try_retrieval: an error of the index gives []
TryRetrieval(answer) == IF answer.error THEN <<>> ELSE answer.results

\* retrieval_agent.py:77   the k of the last attempt
SameK(k) == k
IncreasedK(k) == k * 2

\* retrieval_agent.py:66-77   the searches made, and the results kept.
\* answers[n] is what the index does on the n-th search.
Retrieve(input_data, answers) ==
    LET query == ChosenQuery(input_data)
        key_terms == input_data.key_terms
        k == KValues(input_data.query_type) * 2
        first == TryRetrieval(answers[1])
        second_tried == first = <<>> /\ key_terms # <<>>
        second == IF second_tried THEN TryRetrieval(answers[2]) ELSE first
        third_tried == second = <<>>
        third == IF third_tried
                 THEN TryRetrieval(answers[IF second_tried THEN 3 ELSE 2])
                 ELSE second
    IN  [results |-> third,
         calls |-> <<[query |-> query, k |-> k]>>
                   \o (IF second_tried
                       THEN <<[query |-> Join(key_terms, " "), k |-> k]>> ELSE <<>>)
                   \o (IF third_tried THEN <<[query |-> query, k |-> IncreasedK(k)]>> ELSE <<>>)]

\* retrieval_agent.py:87-90
SourceOf(doc) ==
    [source |-> Get(doc.metadata, "source", "Unknown"),
     title |-> Get(doc.metadata, "title", "Unknown")]

\* retrieval_agent.py:150-157   the score plus 0.05 for each key term in the document
FinalScores(documents, scores, key_terms) ==
    [i \in 1..Len(documents) |->
        scores[i] + 5 * Cardinality({t \in 1..Len(key_terms) :
                                        Contains(Lower(documents[i]), key_terms[t])})]

IndexOrders(n) == {p \in [1..n -> 1..n] : \A i, j \in 1..n : p[i] = p[j] => i = j}

\* numpy.argsort: the orders that sort the values ascending (equal values in
\* an order that numpy does not fix)
Argsort(values) ==
    {p \in IndexOrders(Len(values)) :
        \A i, j \in 1..Len(values) : i < j => values[p[i]] <= values[p[j]]}

Reverse(xs) == [i \in 1..Len(xs) |-> xs[Len(xs) + 1 - i]]

\* retrieval_agent.py:131-163   _rank_documents, for each order argsort may give
RankDocuments(documents, scores, key_terms) ==
    {Reverse(p) : p \in Argsort(FinalScores(documents, scores, key_terms))}

\* retrieval_agent.py:98-100
RankedDocuments(documents, ranked_indices) ==
    [i \in 1..Len(ranked_indices) |-> documents[ranked_indices[i]]]
ScoresLeftInPlace(scores, ranked_indices) == scores
RankedScores(scores, ranked_indices) ==
    [i \in 1..Len(ranked_indices) |-> scores[ranked_indices[i]]]
RankedSources(sources, ranked_indices) ==
    [i \in 1..Len(ranked_indices) |-> sources[ranked_indices[i]]]

\* retrieval_agent.py:79-110   the mapping returned for one ranking
RetrievalResult(pairs, ranked_indices) ==
    LET documents == [i \in 1..Len(pairs) |-> pairs[i].page_content]
        scores == [i \in 1..Len(pairs) |-> pairs[i].score]
        sources == [i \in 1..Len(pairs) |-> SourceOf(pairs[i])]
        ranked == RankedDocuments(documents, ranked_indices)
    IN  [retrieved_documents |-> ranked,
         source_documents |-> RankedSources(sources, ranked_indices),
         context_text |-> Join(ranked, "\n\n"),
         relevance_scores |-> RankedScores(scores, ranked_indices)]

InitRetrieval ==
    /\ retrieval_input \in RetrievalInputs
    /\ index_answers \in {<<a, b, c>> : a \in FirstAnswers, b \in LaterAnswers,
                                        c \in LaterAnswers}
    /\ index_calls = <<>>
    /\ retrieval_result = None

IdleRetrieval ==
    /\ retrieval_input = EmptyMap
    /\ index_answers = <<>>
    /\ index_calls = <<>>
    /\ retrieval_result = None

\* retrieval_agent.py:26-110   RetrievalAgent.process
RetrievalProcess ==
    /\ retrieval_result = None
    /\ LET found == Retrieve(retrieval_input, index_answers)
           documents == [i \in 1..Len(found.results) |-> found.results[i].page_content]
           scores == [i \in 1..Len(found.results) |-> found.results[i].score]
       IN  /\ index_calls' = found.calls
           /\ \E ranked_indices \in
                    RankDocuments(documents, scores, retrieval_input.key_terms) :
                 retrieval_result' = Some(RetrievalResult(found.results, ranked_indices))
    /\ UNCHANGED <<retrieval_input, index_answers>>

(***************************************************************************)
(* Ingestion (ingest.py): the chunks are numbered 1..splits; the batches   *)
(* are embedded and stored one after the other.                            *)
(***************************************************************************)
batch_size == 20        \* ingest.py:33

\* ingest.py:34
total_batches == ((splits - 1) \div batch_size) + 1

\* ingest.py:38   splits[i:i+batch_size], i counted from 0
Batch(i) == {c \in 1..splits : i < c /\ c <= i + batch_size}

\* What can happen to a batch inside the try of lines 42-56: everything
\* succeeds, the creating or adding call raises (nothing was stored), the
\* persist call raises after the chunks were stored, or - in a later batch
\* when no vectorstore was ever bound - the name vectorstore is undefined.
BatchFaults == {"none", "store_raises", "persist_raises"}

InitIngest ==
    /\ splits \in 0..MaxChunks
    /\ ingest_i = 0
    /\ vectorstore = None
    /\ persisted = {}
    /\ batch_log = <<>>

IdleIngest ==
    /\ splits = 0
    /\ ingest_i = 0
    /\ vectorstore = None
    /\ persisted = {}
    /\ batch_log = <<>>

\* ingest.py:43-52   the first batch creates the vectorstore, a later one is
\* added to the one bound to the name vectorstore
StoreBatch(i, store, batch) ==
    IF i = 0 THEN Some(batch) ELSE Some(store[1] \cup batch)

\* ingest.py:57-59   the handler of one batch
AbortOnError(fault, i) ==
    IF fault = "none" THEN i + batch_size ELSE splits
NextBatchAfter(fault, i) == i + batch_size

\* ingest.py:37-59   one iteration of the loop over the batches
IngestBatch ==
    /\ ingest_i < splits
    /\ \E fault \in BatchFaults :
          LET i == ingest_i
              batch == Batch(i)
              current_batch == (i \div batch_size) + 1
              unbound == i # 0 /\ vectorstore = None
              outcome == IF unbound THEN "name_error" ELSE fault
              stored == IF outcome \in {"none", "persist_raises"}
                        THEN StoreBatch(i, vectorstore, batch)
                        ELSE vectorstore
          IN  /\ vectorstore' = stored
              /\ persisted' = IF outcome = "none" THEN stored[1] ELSE persisted
              /\ batch_log' = Append(batch_log,
                                     [current_batch |-> current_batch,
                                      batch |-> batch, outcome |-> outcome])
              /\ ingest_i' = NextBatchAfter(outcome, i)
    /\ UNCHANGED splits

(***************************************************************************)
(* ContextIntegrationAgent._trim_context (agents/context_agent.py).        *)
(***************************************************************************)
TrimMarker == "...[Content trimmed for length]..."

\* context[-n:] for n >= 0 (context[-0:] is the whole string)
Last(s, n) ==
    IF n = 0 \/ n >= Len(s) THEN s ELSE Slice(s, Len(s) - n + 1, Len(s))

\* context_agent.py:370-371   int(max_context_length * 0.6), int(... * 0.4)
KeepStart(limit) == (limit * 6) \div 10
KeepEnd(limit) == (limit * 4) \div 10

\* context_agent.py:364-376
TrimContextDropsEnd(limit, text) ==
    IF Len(text) <= limit THEN text
    ELSE Prefix(text, KeepStart(limit)) \o "\n" \o TrimMarker \o "\n"
TrimContext(limit, text) ==
    IF Len(text) <= limit THEN text
    ELSE Prefix(text, KeepStart(limit)) \o "\n" \o TrimMarker \o "\n"
         \o Last(text, KeepEnd(limit))

\* the contexts tried: the first n characters of a text without repetition
ContextText == "abcdefghijklmnopqrstuvwxyz0123456789"
Contexts == {Prefix(ContextText, n) : n \in 0..MaxContext}

InitTrim ==
    /\ max_context_length \in 0..MaxContextLength
    /\ context \in Contexts
    /\ trimmed = None

IdleTrim ==
    /\ max_context_length = 0
    /\ context = ""
    /\ trimmed = None

TrimContextCall ==
    /\ trimmed = None
    /\ trimmed' = Some(TrimContext(max_context_length, context))
    /\ UNCHANGED <<max_context_length, context>>

(***************************************************************************)
(* ContextIntegrationAgent._create_general_context and                     *)
(* _filter_relevant_history (agents/context_agent.py).                     *)
(***************************************************************************)
DefaultMaxContextLength == 4000    \* context_agent.py:17

\* xs[:n] and xs[-n:] of a list, n > 0
FirstOf(xs, n) == SubSeq(xs, 1, Min({n, Len(xs)}))
LastOf(xs, n) == SubSeq(xs, Max({1, Len(xs) - n + 1}), Len(xs))

\* context_agent.py:338-342   whether any key term is in the text of the entry
IsRelevant(entry, key_terms) ==
    \E t \in 1..Len(key_terms) :
        Contains(Lower(entry.user \o " " \o entry.assistant), Lower(key_terms[t]))

RECURSIVE RelevantEntries(_, _)
RelevantEntries(history, key_terms) ==
    IF history = <<>> THEN <<>>
    ELSE (IF IsRelevant(Head(history), key_terms) THEN <<Head(history)>> ELSE <<>>)
         \o RelevantEntries(Tail(history), key_terms)

\* context_agent.py:328-344   _filter_relevant_history
FilterRelevantHistory(history, key_terms) ==
    IF history = <<>> \/ key_terms = <<>> THEN <<>>
    ELSE FirstOf(RelevantEntries(history, key_terms), 3)

\* context_agent.py:100   f"User: {h['user']}\nAnswer: {h['assistant']}"
HistoryLine(h) == "User: " \o h.user \o "\nAnswer: " \o h.assistant

\* context_agent.py:91-95
DocumentPart(documents, i) ==
    (IF i = 1 THEN "Primary information related to the query:\n"
     ELSE "Additional information:\n") \o documents[i]

\* context_agent.py:84-110   _create_general_context
CreateGeneralContext(documents, history, key_terms) ==
    LET relevant_history == FilterRelevantHistory(history, key_terms)
        shown == LastOf(relevant_history, 2)
        history_text == Join([i \in 1..Len(shown) |-> HistoryLine(shown[i])], "\n")
        context_parts ==
            [i \in 1..Len(documents) |-> DocumentPart(documents, i)]
            \o (IF relevant_history # <<>>
                THEN <<"Relevant conversation history:\n" \o history_text>>
                ELSE <<>>)
    IN  TrimContext(DefaultMaxContextLength, Join(context_parts, "\n\n"))

\* the k-th entry of a chat history: about Fabric on the user's side, on the
\* assistant's side, or not at all
HistoryEntries(k) ==
    LET number == <<"1", "2", "3", "4", "5">>[k]
    IN  { [user |-> "q" \o number \o " on Fabric", assistant |-> "a" \o number],
          [user |-> "q" \o number, assistant |-> "a" \o number \o " is a fabric peer"],
          [user |-> "q" \o number, assistant |-> "a" \o number] }

RECURSIVE Histories(_)
Histories(n) ==
    IF n = 0 THEN {<<>>}
    ELSE LET shorter == Histories(n - 1)
         IN  shorter \cup {Append(h, entry) : h \in {x \in shorter : Len(x) = n - 1},
                                              entry \in HistoryEntries(n)}

InitGeneral ==
    /\ general_documents \in {<<>>, <<"Fabric is a ledger.">>}
    /\ chat_history \in Histories(MaxHistory)
    /\ general_key_terms \in {<<>>, <<"FABRIC">>, <<"orderer", "fabric">>}
    /\ general_context = None

IdleGeneral ==
    /\ general_documents = <<>>
    /\ chat_history = <<>>
    /\ general_key_terms = <<>>
    /\ general_context = None

\* context_agent.py:71-74   context_fn(query, documents, chat_history, key_terms)
CreateGeneralContextCall ==
    /\ general_context = None
    /\ general_context' =
          Some(CreateGeneralContext(general_documents, chat_history, general_key_terms))
    /\ UNCHANGED <<general_documents, chat_history, general_key_terms>>

(***************************************************************************)
(* QueryUnderstandingAgent._determine_query_type (agents/query_agent.py).  *)
(***************************************************************************)
\* \bword\b, and \bfirst\b.+\bsecond\b
Word(w) == Cat(<<WordB, Lit(w), WordB>>)
Then(first, second) == Cat(<<Word(first), Plus(Dot), Word(second)>>)

\* query_agent.py:98-117   the checks of the cascade, in the order of the code
ProceduralFirst ==
    << [type |-> "procedural",
        pattern |-> Alt(<<Then("how", "do"), Then("how", "can"), Then("how", "to")>>)],
       [type |-> "comparative",
        pattern |-> Alt(<<Then("how", "compare"), Word("compare"), Word("difference"),
                          Word("distinguish"), Word("versus"), Word("vs"),
                          Word("similar"), Word("different")>>)] >>
QueryTypePatterns ==
    << [type |-> "comparative",
        pattern |-> Alt(<<Then("how", "compare"), Word("compare"), Word("difference"),
                          Word("distinguish"), Word("versus"), Word("vs"),
                          Word("similar"), Word("different")>>)],
       [type |-> "procedural",
        pattern |-> Alt(<<Then("how", "do"), Then("how", "can"), Then("how", "to")>>)],
       [type |-> "explanatory",
        pattern |-> Alt(<<Word("how"), Word("explain"), Word("describe"),
                          Word("elaborate")>>)],
       [type |-> "definitional",
        pattern |-> Alt(<<Cat(<<WordB, Lit("what"), Plus(Space), Lit("is"), WordB>>),
                          Word("define"),
                          Cat(<<WordB, Lit("meaning"), Plus(Space), Lit("of"), WordB>>),
                          Word("definition")>>)],
       [type |-> "causal",
        pattern |-> Alt(<<Word("why"), Word("cause"), Word("reason")>>)],
       [type |-> "factual",
        pattern |-> Alt(<<Word("when"), Word("where"), Word("who"), Word("which")>>)],
       [type |-> "enumerative",
        pattern |-> Alt(<<Word("list"), Word("name"), Then("give", "examples")>>)],
       [type |-> "evaluative",
        pattern |-> Alt(<<Word("advantages"), Word("benefits"), Word("drawbacks"),
                          Word("limitations")>>)] >>

\* the if / elif chain from its k-th check on; the final else gives "general"
RECURSIVE Cascade(_, _, _)
Cascade(checks, k, query_lower) ==
    IF k > Len(checks) THEN "general"
    ELSE IF Search(checks[k].pattern, query_lower) THEN checks[k].type
    ELSE Cascade(checks, k + 1, query_lower)

\* query_agent.py:83-119
DetermineQueryTypeProceduralFirst(query) ==
    Cascade(ProceduralFirst \o SubSeq(QueryTypePatterns, 3, 8), 1, Lower(query))
DetermineQueryType(query) == Cascade(QueryTypePatterns, 1, Lower(query))

\* the queries classified: those of scripts/test_query_detection.py and the
\* sequences of at most MaxTypeWords words of a vocabulary
TestQueries ==
    { "What is Hyperledger Fabric?",
      "How do I install Hyperledger Fabric?",
      "How does Hyperledger Fabric compare to Ethereum?",
      "Compare Hyperledger Fabric and Ethereum",
      "What's the difference between Fabric and Ethereum?",
      "Explain the endorsement process in Hyperledger Fabric",
      "Why is Hyperledger Fabric permissioned?" }

TypeVocabulary ==
    <<"How", "compare", "to", "explain", "what", "is", "why", "which", "give",
      "examples", "benefits", "Fabric">>

RECURSIVE TypeQueries(_)
TypeQueries(n) ==
    IF n = 0 THEN {""}
    ELSE LET shorter == TypeQueries(n - 1)
         IN  shorter \cup
             {(IF q = "" THEN "" ELSE q \o " ") \o TypeVocabulary[k] :
                 q \in shorter, k \in 1..Len(TypeVocabulary)}

InitQuery ==
    /\ raw_query \in TestQueries \cup TypeQueries(MaxTypeWords)
    /\ detected_type = None

IdleQuery ==
    /\ raw_query = ""
    /\ detected_type = None

\* query_agent.py:67   query_type = self._determine_query_type(raw_query)
DetermineQueryTypeCall ==
    /\ detected_type = None
    /\ detected_type' = Some(DetermineQueryType(raw_query))
    /\ UNCHANGED raw_query

(***************************************************************************)
(* EvaluationAgent (agents/evaluation_agent.py): the overall score and the *)
(* quality assessment.  Scores are counted in hundredths; the mean of five *)
(* scores with the sum S is S / 5 hundredths.                              *)
(***************************************************************************)
\* evaluation_agent.py:54-60   the keys of evaluation_scores, in their order
Metrics == <<"relevance", "grounding", "completeness", "coherence", "conciseness">>

\* sum(scores.values())
SumOfScores(scores) ==
    scores[Metrics[1]] + scores[Metrics[2]] + scores[Metrics[3]]
    + scores[Metrics[4]] + scores[Metrics[5]]

\* round(sum / len, 2), in hundredths: five times a hundredth is never half
\* way between two hundredths
RoundedMean(scores) == (2 * SumOfScores(scores) + 5) \div 10

\* avg_score >= threshold, the threshold in hundredths.  avg_score is the
\* float sum / 5: where the exact mean equals the threshold, the rounding of
\* the float sum decides (on_threshold is what it gives).
AtLeast(scores, threshold, on_threshold) ==
    \/ SumOfScores(scores) > 5 * threshold
    \/ SumOfScores(scores) = 5 * threshold /\ on_threshold

\* max(scores.items(), key=...)[0] and min(...)[0]: the first of the best
\* (of the worst) in the order of the keys
Strongest(scores) ==
    Metrics[Min({k \in 1..5 : \A j \in 1..5 : scores[Metrics[k]] >= scores[Metrics[j]]})]
Weakest(scores) ==
    Metrics[Min({k \in 1..5 : \A j \in 1..5 : scores[Metrics[k]] <= scores[Metrics[j]]})]

\* evaluation_agent.py:377-409   _assess_overall_quality
AssessRoundedScore(scores, on_threshold) ==
    [average_score |-> RoundedMean(scores),
     quality_level |->
        IF RoundedMean(scores) >= 85 THEN "excellent"
        ELSE IF RoundedMean(scores) >= 75 THEN "good"
        ELSE IF RoundedMean(scores) >= 65 THEN "satisfactory"
        ELSE "needs improvement",
     strongest_aspect |-> Strongest(scores),
     weakest_aspect |-> Weakest(scores)]
AssessOverallQuality(scores, on_threshold) ==
    [average_score |-> RoundedMean(scores),
     quality_level |->
        IF AtLeast(scores, 85, on_threshold) THEN "excellent"
        ELSE IF AtLeast(scores, 75, on_threshold) THEN "good"
        ELSE IF AtLeast(scores, 65, on_threshold) THEN "satisfactory"
        ELSE "needs improvement",
     strongest_aspect |-> Strongest(scores),
     weakest_aspect |-> Weakest(scores)]

\* the metric scores tried, in hundredths
MetricValues == {50, 65, 75, 80, 85, 86, 100}

InitEvaluation ==
    /\ evaluation_scores \in [{Metrics[k] : k \in 1..5} -> MetricValues]
    /\ evaluation = None

IdleEvaluation ==
    /\ evaluation_scores = EmptyMap
    /\ evaluation = None

\* evaluation_agent.py:62-80   the scores once computed: overall_score and
\* quality_assessment of the mapping returned
EvaluationProcess ==
    /\ evaluation = None
    /\ evaluation_scores # EmptyMap
    /\ \E on_threshold \in BOOLEAN :
          evaluation' =
             Some([evaluation_scores |-> evaluation_scores,
                   overall_score |-> RoundedMean(evaluation_scores),
                   quality_assessment |->
                      AssessOverallQuality(evaluation_scores, on_threshold)])
    /\ UNCHANGED evaluation_scores

(***************************************************************************)
(* Specifications.                                                         *)
(***************************************************************************)
\* the agents' helper functions not called
IdleAgents == IdleTrim /\ IdleQuery /\ IdleEvaluation /\ IdleGeneral

OtherThanPipeline ==
    <<guardVars, apiVars, retrievalVars, ingestVars,
      agentVars, loadVars, streamVars>>

Init ==
    /\ InitPipeline /\ IdleGuard /\ IdleApi /\ IdleRetrieval
    /\ IdleIngest /\ IdleAgents /\ IdleLoad /\ IdleStream

Next ==
    \/ RunPipeline /\ UNCHANGED OtherThanPipeline
    \/ InvokeAgent /\ UNCHANGED OtherThanPipeline
    \/ AgentReturns /\ UNCHANGED OtherThanPipeline
    \/ ReturnResult /\ UNCHANGED OtherThanPipeline

Spec == Init /\ [][Next]_vars

OtherThanGuard ==
    <<pipeVars, apiVars, retrievalVars, ingestVars,
      agentVars, loadVars, streamVars>>

GuardInit ==
    /\ IdlePipeline /\ InitGuard /\ IdleApi /\ IdleRetrieval
    /\ IdleIngest /\ IdleAgents /\ IdleLoad /\ IdleStream

GuardNext ==
    \/ CheckQueryCall /\ UNCHANGED OtherThanGuard
    \/ ProcessResponseCall /\ UNCHANGED OtherThanGuard

GuardSpec == GuardInit /\ [][GuardNext]_vars

OtherThanApi ==
    <<pipeVars, guardVars, retrievalVars, ingestVars,
      agentVars, loadVars, streamVars>>

ApiInit ==
    /\ IdlePipeline /\ IdleGuard /\ InitApi /\ IdleRetrieval
    /\ IdleIngest /\ IdleAgents /\ IdleLoad /\ IdleStream

ApiNext ==
    \/ AnswerQuery /\ UNCHANGED OtherThanApi
    \/ AnswerQueryMultiAgent /\ UNCHANGED OtherThanApi
    \/ TextQuery /\ UNCHANGED OtherThanApi
    \/ UpdateGuardrails /\ UNCHANGED OtherThanApi
    \/ GenerateResponseCall /\ UNCHANGED OtherThanApi

ApiSpec == ApiInit /\ [][ApiNext]_vars

OtherThanRetrieval ==
    <<pipeVars, guardVars, apiVars, ingestVars,
      agentVars, loadVars, streamVars>>

RetrievalInit ==
    /\ IdlePipeline /\ IdleGuard /\ IdleApi /\ InitRetrieval
    /\ IdleIngest /\ IdleAgents /\ IdleLoad /\ IdleStream

RetrievalNext == RetrievalProcess /\ UNCHANGED OtherThanRetrieval

RetrievalSpec == RetrievalInit /\ [][RetrievalNext]_vars

OtherThanIngest ==
    <<pipeVars, guardVars, apiVars, retrievalVars,
      agentVars, loadVars, streamVars>>

IngestInit ==
    /\ IdlePipeline /\ IdleGuard /\ IdleApi /\ IdleRetrieval
    /\ InitIngest /\ IdleAgents /\ IdleLoad /\ IdleStream

IngestNext == IngestBatch /\ UNCHANGED OtherThanIngest

IngestSpec == IngestInit /\ [][IngestNext]_vars

OtherThanAgents ==
    <<pipeVars, guardVars, apiVars, retrievalVars, ingestVars, loadVars, streamVars>>

AgentInit ==
    /\ IdlePipeline /\ IdleGuard /\ IdleApi /\ IdleRetrieval
    /\ IdleIngest /\ IdleLoad /\ IdleStream
    /\ \/ InitTrim /\ IdleQuery /\ IdleEvaluation /\ IdleGeneral
       \/ IdleTrim /\ InitQuery /\ IdleEvaluation /\ IdleGeneral
       \/ IdleTrim /\ IdleQuery /\ InitEvaluation /\ IdleGeneral
       \/ IdleTrim /\ IdleQuery /\ IdleEvaluation /\ InitGeneral

AgentNext ==
    \/ TrimContextCall /\ UNCHANGED <<queryVars, evaluationVars, contextVars>>
          /\ UNCHANGED OtherThanAgents
    \/ DetermineQueryTypeCall /\ UNCHANGED <<trimVars, evaluationVars, contextVars>>
          /\ UNCHANGED OtherThanAgents
    \/ EvaluationProcess /\ UNCHANGED <<trimVars, queryVars, contextVars>>
          /\ UNCHANGED OtherThanAgents
    \/ CreateGeneralContextCall /\ UNCHANGED <<trimVars, queryVars, evaluationVars>>
          /\ UNCHANGED OtherThanAgents

AgentSpec == AgentInit /\ [][AgentNext]_vars

OtherThanLoad ==
    <<pipeVars, guardVars, apiVars, retrievalVars,
      ingestVars, agentVars, streamVars>>

LoadInit ==
    /\ IdlePipeline /\ IdleGuard /\ IdleApi /\ IdleRetrieval
    /\ IdleIngest /\ IdleAgents /\ InitLoad /\ IdleStream

LoadNext == LoadFromFileCall /\ UNCHANGED OtherThanLoad

LoadSpec == LoadInit /\ [][LoadNext]_vars

OtherThanStream ==
    <<pipeVars, guardVars, apiVars, retrievalVars,
      ingestVars, agentVars, loadVars>>

StreamInit ==
    /\ IdlePipeline /\ IdleGuard /\ IdleApi /\ IdleRetrieval
    /\ IdleIngest /\ IdleAgents /\ IdleLoad /\ InitStream

StreamNext ==
    \/ StartThread /\ UNCHANGED OtherThanStream
    \/ WorkerPut /\ UNCHANGED OtherThanStream
    \/ WorkerEnd /\ UNCHANGED OtherThanStream
    \/ WorkerRaises /\ UNCHANGED OtherThanStream
    \/ NextToken /\ UNCHANGED OtherThanStream
    \/ ProcessAndStore /\ UNCHANGED OtherThanStream

StreamSpec == StreamInit /\ [][StreamNext]_vars

(***************************************************************************)
(* Properties of the coordinator and of the base agent wrapper.            *)
(***************************************************************************)
\* The agents whose process returns a dict or fails inside the wrapper's try.
OrdinaryAgents == \A i \in 1..N : agents[i].behav \in {"ok", "raise", "none"}

\* run_pipeline returned from line 71 (the loop ran to its end).
ReturnedNormally == pc = "done" /\ idx > N

\* C1: with one agent whose process always raises (the others returning
\* dicts), the returned processing_history has one entry per agent in the
\* configured order, the failing agent's entry has an error that is not None,
\* and every later agent was executed and its output keys are in the final
\* state.
C1_FailingAgentDoesNotStopPipeline ==
    (pc = "done" /\ OrdinaryAgents /\ \E f \in 1..N : agents[f].behav = "raise") =>
        /\ "processing_history" \in DOMAIN ret
        /\ Len(processing_history) = N
        /\ \A i \in 1..N : processing_history[i].agent = i
        /\ \A f \in 1..N : agents[f].behav = "raise" =>
              /\ processing_history[f].error # NoError
              /\ \A j \in (f + 1)..N :
                    /\ Len(received) >= j
                    /\ Len(results) >= j
                    /\ agents[j].behav = "ok" =>
                          \A k \in agents[j].out \cup {"processing_time"} :
                              k \in DOMAIN ret /\ ret[k] >= j

C1_Witness ==
    /\ pc = "done"
    /\ N = 3
    /\ agents[1].behav = "ok"
    /\ agents[2].behav = "raise"
    /\ agents[3] = [behav |-> "ok", out |-> {"b", "query"}]
    /\ Len(processing_history) = 3
    /\ processing_history[2].error = 2
    /\ ret["b"] = 3

\* C4: execute_with_logging never lets an exception of process out: a failing
\* process gives exactly {error, agent, processing_time} with the exception's
\* message and the agent's name; a successful one gives process's dict with
\* processing_time added.
C4_WrapperAbsorbsFailure ==
    /\ \A i \in 1..Len(results) :
          /\ agents[i].behav = "raise" =>
                /\ DOMAIN results[i] = {"error", "agent", "processing_time"}
                /\ results[i]["error"] = i
                /\ results[i]["agent"] = i
          /\ agents[i].behav = "ok" =>
                /\ DOMAIN results[i] = agents[i].out \cup {"processing_time"}
                /\ \A k \in agents[i].out : results[i][k] = i
    /\ \A i \in 1..N :
          (agents[i].behav = "raise" /\ (idx > i \/ (idx = i /\ pc = "done"))) =>
              /\ Len(results) >= i
              /\ idx > i

C4_Witness ==
    /\ Len(results) >= 2
    /\ agents[1].behav = "raise"
    /\ agents[2].behav = "ok"
    /\ results[1] = ErrorResult(1)
    /\ "processing_time" \in DOMAIN results[2]

\* C5: agents run strictly one after the other in the configured order: an
\* agent is invoked only after its predecessor's result (an error result too)
\* was merged, its input contains that result, and at most one agent of a
\* run is in progress.
C5_StrictlySequential ==
    /\ Cardinality(running) <= 1
    /\ running \subseteq {Len(received)}
    /\ pc = "await" => (running = {idx} /\ Len(received) = idx)
    /\ Len(received) <= Len(results) + 1
    /\ \A i \in 2..Len(received) :
          /\ Len(processing_history) >= i - 1
          /\ \A k \in DOMAIN results[i - 1] :
                k \in DOMAIN received[i] /\ received[i][k] = results[i - 1][k]
          /\ \A k \in DOMAIN received[i - 1] : k \in DOMAIN received[i]

C5_Witness ==
    /\ pc = "await"
    /\ idx = 3
    /\ agents[2].behav = "raise"
    /\ received[3]["error"] = 2
    /\ running = {3}

\* C6 as stated: every key of the initial state or of an earlier agent is in
\* the state given to each later agent and in the mapping run_pipeline
\* returns, in any execution.
C6_Original_KeysNeverLost ==
    /\ \A i \in 1..Len(received) :
          /\ DOMAIN initial_input \subseteq DOMAIN received[i]
          /\ \A j \in 1..i : DOMAIN received[j] \subseteq DOMAIN received[i]
    /\ pc = "done" =>
          /\ DOMAIN initial_input \subseteq DOMAIN ret
          /\ \A i \in 1..Len(received) : DOMAIN received[i] \subseteq DOMAIN ret

\* C6 amended: the same, for the mapping returned when no exception escaped
\* the per-agent loop; when one escaped, the returned mapping has the keys
\* error and processing_history only.
C6_KeysNeverLostUnlessPipelineError ==
    /\ \A i \in 1..Len(received) :
          /\ DOMAIN initial_input \subseteq DOMAIN received[i]
          /\ \A j \in 1..i : DOMAIN received[j] \subseteq DOMAIN received[i]
    /\ pc # "idle" => DOMAIN initial_input \subseteq DOMAIN current_data
    /\ ReturnedNormally =>
          /\ DOMAIN initial_input \subseteq DOMAIN ret
          /\ \A i \in 1..Len(received) : DOMAIN received[i] \subseteq DOMAIN ret
          /\ \A i \in 1..Len(results) : DOMAIN results[i] \subseteq DOMAIN ret
    /\ (pc = "done" /\ ~ReturnedNormally) =>
          DOMAIN ret = {"error", "processing_history"}

C6_Witness ==
    /\ ReturnedNormally
    /\ N = 3
    /\ agents[1] = [behav |-> "ok", out |-> {"a"}]
    /\ agents[2].behav = "raise"
    /\ agents[3] = [behav |-> "ok", out |-> {"b", "query"}]
    /\ DOMAIN ret = {"query", "chat_history", "a", "b", "error", "agent",
                     "processing_time", "processing_history"}

(***************************************************************************)
(* Claims about GuardrailProcessor (specification GuardSpec).              *)
(***************************************************************************)
CustomHits(config, query) ==
    {k \in 1..Len(config.custom_responses) :
        CustomMatches(config.custom_responses[k].pattern, query)}
TopicHits(config, query) ==
    {k \in 1..Len(config.blocked_topics) :
        TopicMatches(config.blocked_topics[k], Lower(query))}
RelatedHits(config, query) ==
    {k \in 1..Len(config.topic_related_terms) :
        RelatedMatches(config.topic_related_terms[k].terms, Lower(query))}
CombinationHits(config, query) ==
    {k \in 1..Len(config.high_risk_combinations) :
        CombinationMatches(config.high_risk_combinations[k], Lower(query))}

\* C8: check_query evaluates its rules in the fixed order custom_responses,
\* blocked_topics, the cryptocurrency special case, topic_related_terms,
\* high_risk_combinations, and answers with the reply of the first rule that
\* matches, even when a later rule matches too; within a rule the first entry
\* in configuration order wins; without a match the query is allowed;
\* should_process is false exactly when a custom response is returned.  With
\* the custom response "(?i)how do I hack" configured, "How do I hack into a
\* blockchain?" is blocked with that response, and under the default
\* configuration and the one of scripts/test_guardrails.py "How do I install
\* Hyperledger Fabric?" matches no rule and is allowed.
C8_FirstMatchingRuleWins ==
    gCheck # None =>
        LET r == gCheck[1]
            custom == CustomHits(gConfig, gQuery)
            topics == TopicHits(gConfig, gQuery)
            crypto == CryptoMatches(Lower(gQuery))
            related == RelatedHits(gConfig, gQuery)
            combos == CombinationHits(gConfig, gQuery)
        IN  /\ custom # {} =>
                r = Blocked(gConfig.custom_responses[Min(custom)].response)
            /\ custom = {} /\ topics # {} =>
                r = Blocked(BlockedTopicReply(gConfig.blocked_topics[Min(topics)]))
            /\ custom = {} /\ topics = {} /\ crypto =>
                r = Blocked(CryptoReply)
            /\ custom = {} /\ topics = {} /\ ~crypto /\ related # {} =>
                r = Blocked(RelatedReply(gConfig.topic_related_terms[Min(related)].topic))
            /\ custom = {} /\ topics = {} /\ ~crypto /\ related = {} /\ combos # {} =>
                r = Blocked(CombinationReply)
            /\ custom = {} /\ topics = {} /\ ~crypto /\ related = {} /\ combos = {} =>
                r = Allowed
            /\ r.should_process = (r.custom_response = None)
            /\ gQuery = "How do I hack into a blockchain?"
               /\ (\E k \in 1..Len(gConfig.custom_responses) :
                       gConfig.custom_responses[k].pattern = "(?i)how do I hack")
               => r = Blocked("I cannot provide information on hacking.")
            /\ gQuery = "How do I install Hyperledger Fabric?"
               /\ gConfig \in {SetDefaultConfig(NewGuardrailConfig), TestConfig}
               => r = Allowed

\* C8 witness: a query that matches a custom response and a blocked topic as
\* well has been checked and was answered with the custom response.
C8_Witness ==
    /\ gCheck # None
    /\ CustomHits(gConfig, gQuery) # {}
    /\ TopicHits(gConfig, gQuery) # {}
    /\ gCheck[1] = Blocked("I cannot provide information on hacking.")
    /\ gCheck[1] # Blocked(BlockedTopicReply("hacking"))

\* what process_response leaves of a response once its truncation step is done
NothingElseApplies(config, query, response) ==
    LET truncated == Truncate(config, response)
    IN  /\ \A k \in 1..Len(config.filtered_patterns) :
              ~Search(Compile(config.filtered_patterns[k]), Lower(truncated))
        /\ \A k \in 1..Len(SensitivePatterns) :
              ~Search(Compile(SensitivePatterns[k]), truncated)
        /\ ~AnyTermIn(SecurityTerms \cup BlockchainTerms \cup TechnicalTerms,
                      Lower(query) \o " " \o Lower(response))

\* C9 as stated: process_response on a response longer than
\* max_response_length returns a string of exactly max_response_length +
\* len("... [Response truncated]") characters that ends with that suffix.
\* (Stated here for the limits that are not negative only.)
C9_Original_TruncatedLengthIsExact ==
    (/\ gProcessed # None
     /\ gConfig.max_response_length >= 0
     /\ Len(gResponse) > gConfig.max_response_length)
    => /\ Len(gProcessed[1]) = gConfig.max_response_length + Len(TruncationSuffix)
       /\ EndsWith(gProcessed[1], TruncationSuffix)

\* C9 amended: process_response first cuts a response longer than
\* max_response_length to response[:max_response_length] followed by
\* "... [Response truncated]".  When no filtered pattern and no sensitive-data
\* pattern matches the result and no security, blockchain or technical term
\* occurs in the lower-cased query and response, that is the returned string:
\* it ends with the suffix and, for a limit that is not negative, has exactly
\* max_response_length + len(suffix) characters.  Under the same conditions a
\* response of length at most max_response_length is returned unchanged.
C9_TruncatedLengthIsExactWhenNothingElseApplies ==
    (gProcessed # None /\ NothingElseApplies(gConfig, gQuery, gResponse))
    => LET max == gConfig.max_response_length
       IN  /\ Len(gResponse) > max =>
                /\ gProcessed[1] = Prefix(gResponse, max) \o TruncationSuffix
                /\ EndsWith(gProcessed[1], TruncationSuffix)
                /\ max >= 0 => Len(gProcessed[1]) = max + Len(TruncationSuffix)
           /\ Len(gResponse) <= max => gProcessed[1] = gResponse

\* C9 witness: a response of 400 characters has been processed under the
\* limit 300 with nothing else applying, and 324 characters came back.
C9_Witness ==
    /\ gProcessed # None
    /\ gConfig.max_response_length = 300
    /\ Len(gResponse) = 400
    /\ NothingElseApplies(gConfig, gQuery, gResponse)
    /\ Len(gProcessed[1]) = 324
    /\ EndsWith(gProcessed[1], TruncationSuffix)

(***************************************************************************)
(* Claims about the HTTP API process (specification ApiSpec).              *)
(***************************************************************************)
QueryEndpoints == {"/query", "/query/multi-agent", "/text-query"}

\* whether the last request was a query that the guardrail pre-check blocks
LastQueryIsBlocked ==
    /\ reply.endpoint \in QueryEndpoints
    /\ ~CheckQueryOf[routes_processor.config][reply.query].should_process

\* C2: a request to /query or /query/multi-agent whose query the guardrail
\* pre-check blocks calls neither the generation model nor the retrieval nor
\* the agent pipeline, and is answered with the guardrail's canned response
\* as the message content; the answer of /query/multi-agent carries the
\* metadata guardrails_blocked = true.
C2_BlockedQueryNeverReachesTheModel ==
    (LastQueryIsBlocked /\ reply.endpoint \in {"/query", "/query/multi-agent"})
    => /\ model_calls = reply.before.model_calls
       /\ retrieval_calls = reply.before.retrieval_calls
       /\ pipeline_runs = reply.before.pipeline_runs
       /\ reply.status = 200
       /\ Some(reply.content) =
             CheckQueryOf[routes_processor.config][reply.query].custom_response
       /\ reply.endpoint = "/query/multi-agent" => reply.metadata = "guardrails_blocked"

\* C2 witness: after a request that did call the model, a blocked request to
\* /query/multi-agent has been answered with the canned response.
C2_Witness ==
    /\ LastQueryIsBlocked
    /\ reply.endpoint = "/query/multi-agent"
    /\ reply.metadata = "guardrails_blocked"
    /\ reply.content = "I cannot provide information on hacking."
    /\ model_calls = 1
    /\ reply.before.model_calls = 1

\* C3: once POST /update_guardrails has returned success, the processor that
\* the pre-check of /query, /query/multi-agent and /text-query consults is the
\* newly built one: a later query is checked against the configuration of the
\* update body, so a query containing a newly blocked topic is blocked.
C3_UpdatedProcessorIsConsulted ==
    (reply.endpoint \in QueryEndpoints /\ reply.updates > 0)
    => /\ reply.processor = reply.updates
       /\ (/\ reply.updates = main_guardrails_processor.id
           /\ ~CheckQueryOf[main_guardrails_processor.config][reply.query].should_process)
          => Some(reply.content) =
                CheckQueryOf[main_guardrails_processor.config][reply.query].custom_response

\* C10: the max_response_length of every GuardrailConfig the process holds -
\* loaded from a file at start, reset to the defaults, or built by
\* POST /update_guardrails - is at least 0.
C10_MaxResponseLengthIsNeverNegative ==
    /\ routes_processor.config.max_response_length >= 0
    /\ singleton_guardrails.config.max_response_length >= 0
    /\ main_guardrails_processor.config.max_response_length >= 0

(***************************************************************************)
(* Claims about RetrievalAgent (specification RetrievalSpec).              *)
(***************************************************************************)
\* the (document, score) pairs the agent kept from the index
KeptResults == Retrieve(retrieval_input, index_answers).results

\* C7: in every result of RetrievalAgent.process - no, one or several
\* documents found, index errors or none - retrieved_documents,
\* relevance_scores and source_documents have the same length, and at each
\* position the three entries stem from one (document, score) pair that the
\* index returned, each pair being used once, also after the re-ranking.
C7_ListsAreAligned ==
    retrieval_result # None =>
        LET out == retrieval_result[1]
            n == Len(KeptResults)
        IN  /\ Len(out.retrieved_documents) = n
            /\ Len(out.relevance_scores) = n
            /\ Len(out.source_documents) = n
            /\ \E p \in IndexOrders(n) :
                  \A i \in 1..n :
                      /\ out.retrieved_documents[i] = KeptResults[p[i]].page_content
                      /\ out.relevance_scores[i] = KeptResults[p[i]].score
                      /\ out.source_documents[i] = SourceOf(KeptResults[p[i]])

\* C7 witness: the first search failed, a later one returned two documents,
\* and the re-ranking has put the second of them first.
C7_Witness ==
    /\ retrieval_result # None
    /\ index_answers[1].error
    /\ Len(KeptResults) = 2
    /\ retrieval_result[1].retrieved_documents[1] = KeptResults[2].page_content
    /\ retrieval_result[1].relevance_scores[1] = KeptResults[2].score
    /\ retrieval_result[1].relevance_scores[1] # retrieval_result[1].relevance_scores[2]

(***************************************************************************)
(* Claims about the ingestion (specification IngestSpec).                  *)
(***************************************************************************)
IngestFinished == ingest_i >= splits

\* the batches in which the fault was the batch's own (not the unbound name)
FaultyBatches == {k \in 1..Len(batch_log) : batch_log[k].outcome \in BatchFaults \ {"none"}}

\* the chunks of the batches k of the log that satisfy keep
ChunksOf(keep(_)) == UNION {batch_log[k].batch : k \in {j \in 1..Len(batch_log) : keep(j)}}

\* C11 as stated: n chunks are processed in ceil(n/20) batches in chunk order
\* (45 chunks: 20, 20 and 5), and when batch 2 raises, batch 3 is still
\* processed and the final index holds exactly the chunks of batches 1 and 3.
C11_Original_FailedBatchLeavesNoChunks ==
    IngestFinished =>
        /\ Len(batch_log) = total_batches
        /\ (/\ Len(batch_log) = 3
            /\ batch_log[1].outcome = "none"
            /\ batch_log[2].outcome # "none"
            /\ batch_log[3].outcome = "none")
           => /\ vectorstore = Some(batch_log[1].batch \cup batch_log[3].batch)
              /\ persisted = batch_log[1].batch \cup batch_log[3].batch

\* C11 amended: n chunks are processed in exactly ceil(n/20) batches in chunk
\* order (45 chunks: 20, 20 and 5), whatever raises; a batch whose storing
\* and persisting succeeded leaves the persisted index equal to the
\* vectorstore; the vectorstore holds exactly the chunks of the batches whose
\* creating or adding call completed, which for a later batch needs the name
\* bound by batch 1: when the adding call of batch 2 raises, batch 3 is still
\* processed and the index holds the chunks of batches 1 and 3, and when only
\* the persist call of batch 2 raises its chunks are in the index as well.
C11_BatchesInOrderAndStoredUnlessStoringRaised ==
    /\ \A k \in 1..Len(batch_log) :
          /\ batch_log[k].current_batch = k
          /\ batch_log[k].batch =
                {c \in 1..splits : (k - 1) * batch_size < c /\ c <= k * batch_size}
          /\ batch_log[k].batch # {}
    /\ Len(batch_log) <= total_batches
    /\ IngestFinished =>
          /\ Len(batch_log) = total_batches
          /\ total_batches * batch_size >= splits
          /\ (total_batches - 1) * batch_size < splits \/ splits = 0
          /\ splits = 45 =>
                /\ Len(batch_log) = 3
                /\ Cardinality(batch_log[1].batch) = 20
                /\ Cardinality(batch_log[2].batch) = 20
                /\ Cardinality(batch_log[3].batch) = 5
    /\ (batch_log # <<>> /\ batch_log[Len(batch_log)].outcome = "none")
          => vectorstore = Some(persisted)
    /\ LET stored(k) == batch_log[k].outcome \in {"none", "persist_raises"}
       IN  IF batch_log = <<>> \/ ~stored(1)
           THEN vectorstore = None /\ persisted = {}
           ELSE vectorstore = Some(ChunksOf(stored))
    /\ (/\ IngestFinished
        /\ Len(batch_log) = 3
        /\ batch_log[1].outcome = "none"
        /\ batch_log[3].outcome = "none")
       => /\ batch_log[2].outcome = "store_raises" =>
                persisted = batch_log[1].batch \cup batch_log[3].batch
          /\ batch_log[2].outcome = "persist_raises" => persisted = 1..splits

\* C11 witness: 45 chunks, the adding call of batch 2 raised, batch 3 was
\* processed, and the index holds the 25 chunks of batches 1 and 3.
C11_Witness ==
    /\ IngestFinished
    /\ splits = 45
    /\ Len(batch_log) = 3
    /\ batch_log[2].outcome = "store_raises"
    /\ batch_log[3].outcome = "none"
    /\ persisted = (1..20) \cup (41..45)

\* C20: a failure in one batch, the first included, is caught and only that
\* batch is skipped: the chunks of every other batch are in the persisted
\* index when the ingestion has finished.
C20_OnlyTheFailingBatchIsSkipped ==
    (IngestFinished /\ Cardinality(FaultyBatches) = 1)
    => \A k \in 1..Len(batch_log) :
          k \notin FaultyBatches => batch_log[k].batch \subseteq persisted

(***************************************************************************)
(* Claims about the multi-agent facade and the legacy generate_response    *)
(* (specification ApiSpec).                                                *)
(***************************************************************************)
\* C12: every MultiAgentRAG.generate_response call appends exactly one
\* {user: query, assistant: response} entry to the facade's one history list
\* once the pipeline has finished, also when the response is empty; earlier
\* entries are never edited or removed; and the list is shared by all
\* session ids: the chat_history given to the pipeline by a call is the list
\* of the entries of all earlier calls, whatever their session_id.
C12_OneSharedAppendOnlyHistory ==
    /\ Len(rag_history) = Len(pipeline_inputs)
    /\ Len(rag_history) = pipeline_runs
    /\ \A j \in 1..Len(pipeline_inputs) :
          /\ rag_history[j].user = pipeline_inputs[j].query
          /\ pipeline_inputs[j].chat_history = SubSeq(rag_history, 1, j - 1)
    /\ (reply.endpoint = "/query/multi-agent" /\ reply.metadata = "pipeline")
       => /\ rag_history # <<>>
          /\ rag_history[Len(rag_history)] =
                [user |-> reply.query, assistant |-> reply.content]

\* C12 witness: a call under one session id ended without a response, and a
\* later call under another session id was given that entry as chat_history.
C12_Witness ==
    /\ Len(pipeline_inputs) = 2
    /\ pipeline_inputs[1].session_id = "1"
    /\ pipeline_inputs[2].session_id = "default"
    /\ rag_history[1].assistant = ""
    /\ pipeline_inputs[2].chat_history = <<rag_history[1]>>
    /\ rag_history[2].assistant # ""

\* C13: generate_response runs the guardrail pre-check first: for a blocked
\* query it appends the user query and then the canned reply to the history
\* of that session, returns the canned reply and calls neither the retrieval
\* nor the model; for an allowed query it appends one user message (the
\* query) followed by one assistant message, the returned post-processed
\* response, and that only once the generation has completed: a call that
\* raises before leaves the history as it was.  No other session changes.
C13_PreCheckFirstThenOneExchange ==
    legacy_call # None =>
        LET c == legacy_call[1]
            config == singleton_guardrails.config
            verdict == CheckQueryOf[config][c.query]
            exchange(answer) == <<[by |-> "user", text |-> c.query],
                                  [by |-> "ai", text |-> answer]>>
        IN  /\ \A id \in SessionIds \ {c.session_id} :
                  c.after.history[id] = c.before.history[id]
            /\ ~verdict.should_process =>
                  /\ ~c.raised
                  /\ Some(c.response) = verdict.custom_response
                  /\ c.after.history[c.session_id] =
                        c.before.history[c.session_id] \o exchange(c.response)
                  /\ c.after.model_calls = c.before.model_calls
                  /\ c.after.retrieval_calls = c.before.retrieval_calls
            /\ (verdict.should_process /\ ~c.raised) =>
                  /\ c.response = ProcessResponseOf[config][c.query][c.output]
                  /\ c.after.history[c.session_id] =
                        c.before.history[c.session_id] \o exchange(c.response)
                  /\ c.after.model_calls = c.before.model_calls + 1
            /\ (verdict.should_process /\ c.raised) =>
                  /\ c.after.history = c.before.history
                  /\ c.after.model_calls = c.before.model_calls

\* C13 witness: after an answered query of the session, a blocked query was
\* recorded with its canned reply, without a call of the model.
C13_Witness ==
    /\ legacy_call # None
    /\ legacy_call[1].query = "How do I hack into a blockchain?"
    /\ Len(legacy_call[1].before.history[legacy_call[1].session_id]) = 2
    /\ Len(session_history[legacy_call[1].session_id]) = 4
    /\ session_history[legacy_call[1].session_id][4].text = legacy_call[1].response
    /\ session_history[legacy_call[1].session_id][2].text # legacy_call[1].output
    /\ model_calls = 1

(***************************************************************************)
(* More claims about RetrievalAgent (specification RetrievalSpec).         *)
(***************************************************************************)
\* the boosted scores _rank_documents computes for the results kept
BoostedScores ==
    FinalScores([i \in 1..Len(KeptResults) |-> KeptResults[i].page_content],
                [i \in 1..Len(KeptResults) |-> KeptResults[i].score],
                retrieval_input.key_terms)

\* C14: when the boosted scores (score + 0.05 per key term present) of the
\* documents are already in descending order, equal scores included,
\* _rank_documents returns the identity ordering: the documents come back
\* in the order the index gave them.
C14_SortedInputKeepsItsOrder ==
    (/\ retrieval_result # None
     /\ \A i \in 1..(Len(KeptResults) - 1) : BoostedScores[i] >= BoostedScores[i + 1])
    => \A i \in 1..Len(KeptResults) :
          retrieval_result[1].retrieved_documents[i] = KeptResults[i].page_content

(***************************************************************************)
(* Claims about the agents' helper functions (specification AgentSpec).    *)
(***************************************************************************)
\* C15 as stated: a context of at most max_context_length characters comes
\* back unchanged; a longer one comes back as its first keep_start and its
\* last keep_end characters around the marker, with the marker in it and a
\* length of keep_start + keep_end + len(marker), keep_start being
\* floor(0.6 * max_context_length) and keep_end floor(0.4 * max_context_length).
C15_Original_TrimmedLengthIsExact ==
    trimmed # None =>
        IF Len(context) <= max_context_length THEN trimmed[1] = context
        ELSE /\ Contains(trimmed[1], TrimMarker)
             /\ Len(trimmed[1]) = KeepStart(max_context_length)
                                   + KeepEnd(max_context_length) + Len(TrimMarker)

\* C15 amended: a context of at most max_context_length characters comes back
\* unchanged; a longer one comes back as its first keep_start characters, a
\* newline, the marker, a newline, and its last keep_end characters, so with
\* keep_end >= 1 the length is keep_start + keep_end + len(marker) + 2; with
\* keep_end = 0 (max_context_length below 3) the part after the marker is the
\* whole context.
C15_TrimKeepsStartAndEndAroundMarkerLine ==
    trimmed # None =>
        LET keep_start == KeepStart(max_context_length)
            keep_end == KeepEnd(max_context_length)
            n == Len(context)
        IN  IF n <= max_context_length THEN trimmed[1] = context
            ELSE /\ Contains(trimmed[1], TrimMarker)
                 /\ keep_start = (6 * max_context_length) \div 10
                 /\ keep_end = (4 * max_context_length) \div 10
                 /\ Slice(trimmed[1], 1, keep_start) = Slice(context, 1, keep_start)
                 /\ Slice(trimmed[1], keep_start + 1, keep_start + Len(TrimMarker) + 2)
                       = "\n" \o TrimMarker \o "\n"
                 /\ keep_end >= 1 =>
                       /\ Len(trimmed[1]) = keep_start + keep_end + Len(TrimMarker) + 2
                       /\ Slice(trimmed[1], Len(trimmed[1]) - keep_end + 1, Len(trimmed[1]))
                             = Slice(context, n - keep_end + 1, n)
                 /\ keep_end = 0 =>
                       /\ max_context_length < 3
                       /\ Len(trimmed[1]) = keep_start + n + Len(TrimMarker) + 2
                       /\ Slice(trimmed[1], Len(trimmed[1]) - n + 1, Len(trimmed[1])) = context

\* C15 witness: 14 characters trimmed under the limit 10 to the first 6 and
\* the last 4 around the marker line.
C15_Witness ==
    /\ trimmed # None
    /\ max_context_length = 10
    /\ context = "abcdefghijklmn"
    /\ trimmed[1] = "abcdef\n...[Content trimmed for length]...\nklmn"

\* the types a query matches a pattern of
MatchedTypes ==
    {QueryTypePatterns[k].type :
        k \in {j \in 1..Len(QueryTypePatterns) :
                  Search(QueryTypePatterns[j].pattern, Lower(raw_query))}}

\* the position of a type in the cascade
Rank(type) ==
    CHOOSE k \in 1..Len(QueryTypePatterns) : QueryTypePatterns[k].type = type

\* C16: _determine_query_type is a first-match-wins cascade in the order
\* comparative, procedural, explanatory, definitional, causal, factual,
\* enumerative, evaluative, general: the type returned is the first in that
\* order with a matching pattern, so a query matching a comparative pattern
\* is comparative also when it matches the "how" patterns ("How does
\* Hyperledger Fabric compare to Ethereum?"); a query matching none is
\* general; the result is always one of the nine types.
C16_FirstMatchingTypeWins ==
    /\ [k \in 1..8 |-> QueryTypePatterns[k].type] =
          <<"comparative", "procedural", "explanatory", "definitional", "causal",
            "factual", "enumerative", "evaluative">>
    /\ detected_type # None =>
          /\ detected_type[1] \in {QueryTypePatterns[k].type : k \in 1..8} \cup {"general"}
          /\ MatchedTypes = {} <=> detected_type[1] = "general"
          /\ MatchedTypes # {} =>
                /\ detected_type[1] \in MatchedTypes
                /\ \A t \in MatchedTypes : Rank(detected_type[1]) <= Rank(t)
          /\ "comparative" \in MatchedTypes => detected_type[1] = "comparative"
          /\ raw_query = "How does Hyperledger Fabric compare to Ethereum?"
                => detected_type[1] = "comparative"
          /\ raw_query = "How do I install Hyperledger Fabric?"
                => detected_type[1] = "procedural"
          /\ raw_query = "What is Hyperledger Fabric?" => detected_type[1] = "definitional"

\* C16 witness: a query matching the comparative, the procedural and the
\* explanatory patterns at once has been classified comparative.
C16_Witness ==
    /\ detected_type = Some("comparative")
    /\ {"comparative", "procedural", "explanatory"} \subseteq MatchedTypes

C18_FirstLoadableDefaultPathIsUsed ==
    default_files # <<>> =>
        LET loadable == {k \in 1..Len(default_files) : default_files[k].kind = "mapping"}
        IN  singleton_guardrails.config =
               IF loadable = {}
               THEN SetDefaultConfig(NewGuardrailConfig)
               ELSE Override(NewGuardrailConfig, DOMAIN NewGuardrailConfig,
                             default_files[Min(loadable)].body)

\* C19: the string returned by process_response holds no credit-card-like,
\* SSN-like, IPv4-like or email-like substring, whichever disclaimer (security,
\* blockchain, technical or none) the call appended.
C19_NothingSensitiveIsReturned ==
    gProcessed # None =>
        \A k \in 1..Len(SensitivePatterns) :
            ~Search(Compile(SensitivePatterns[k]), gProcessed[1])

\* C21: the relevance_scores returned by process are the boosted scores
\* (score + 0.05 for each key term in the passage) in non-increasing order,
\* with retrieved_documents, source_documents and context_text in the same
\* order after the rerank.
C21_ReturnedScoresAreBoostedAndSorted ==
    retrieval_result # None =>
        LET out == retrieval_result[1]
            n == Len(KeptResults)
        IN  \E p \in IndexOrders(n) :
               /\ \A i \in 1..n :
                     /\ out.relevance_scores[i] = BoostedScores[p[i]]
                     /\ out.retrieved_documents[i] = KeptResults[p[i]].page_content
                     /\ out.source_documents[i] = SourceOf(KeptResults[p[i]])
               /\ Len(out.relevance_scores) = n
               /\ \A i \in 1..(n - 1) :
                     out.relevance_scores[i] >= out.relevance_scores[i + 1]
               /\ out.context_text = Join(out.retrieved_documents, "\n\n")

\* whether the n-th search of the call yielded no results
YieldedNothing(n) == TryRetrieval(index_answers[n]) = <<>>

\* the searches of a call, the last of them made with the text last_query:
\* the first with the chosen query and k = 2 * the base count of the query
\* type; then, after an empty first one and with key terms, the joined key
\* terms with the same k; then, everything being empty so far, last_query
\* with k doubled again; nothing after a search that yielded results
SearchesEscalate(last_query) ==
    LET k == KValues(retrieval_input.query_type) * 2
        first == [query |-> ChosenQuery(retrieval_input), k |-> k]
        by_terms == [query |-> Join(retrieval_input.key_terms, " "), k |-> k]
        last == [query |-> last_query, k |-> 2 * k]
        n == Len(index_calls)
    IN  /\ n \in 1..3
        /\ index_calls[1] = first
        /\ \A j \in 1..(n - 1) : YieldedNothing(j)
        /\ n = 1 => ~YieldedNothing(1)
        /\ n = 2 => \/ index_calls[2] = last /\ retrieval_input.key_terms = <<>>
                    \/ index_calls[2] = by_terms /\ retrieval_input.key_terms # <<>>
                         /\ ~YieldedNothing(2)
        /\ n = 3 => /\ index_calls[2] = by_terms /\ retrieval_input.key_terms # <<>>
                    /\ index_calls[3] = last

\* C22 as stated: process makes at most three similarity searches, in this
\* order: the chosen query (expanded_query if present, else query) with k =
\* 2 * the base count; only after an empty result the space-joined key_terms
\* with the same k; only when there are still no results the original query
\* (the query of the input) with k doubled again; a non-empty result stops
\* the escalation.
C22_Original_LastSearchUsesTheOriginalQuery ==
    retrieval_result # None => SearchesEscalate(OriginalQuery(retrieval_input))

\* C22 (amended): the same, the last search being made with the chosen query
\* of the first search again (the expanded query when there is one), with k
\* doubled again.
C22_LastSearchRepeatsTheChosenQuery ==
    retrieval_result # None => SearchesEscalate(ChosenQuery(retrieval_input))

\* C22 witness: with an expanded query, three searches were made and the
\* third one, with the expanded query and the doubled k, found documents.
C22_Witness ==
    /\ retrieval_result # None
    /\ "expanded_query" \in DOMAIN retrieval_input
    /\ Len(index_calls) = 3
    /\ index_calls[3].query = retrieval_input.expanded_query
    /\ index_calls[3].k = 2 * index_calls[1].k
    /\ Len(retrieval_result[1].retrieved_documents) = 2

\* C23: when a similarity search raises an index error, the error counts as
\* an empty result and no further search is made in that call: a search is
\* followed by another one only when it returned an empty result without
\* an error.
C23_NoSearchAfterAnIndexError ==
    retrieval_result # None =>
        \A n \in 1..Len(index_calls) :
            index_answers[n].error =>
                /\ n = Len(index_calls)
                /\ retrieval_result[1].retrieved_documents = <<>>

(***************************************************************************)
(* Claims about GuardrailConfig.load_from_file (specification LoadSpec).   *)
(***************************************************************************)
\* whether the call read and parsed a YAML mapping and ended without a failure
LoadSucceeds == load_file.kind \in {"mapping", "sequence"}

\* C24: load_from_file never raises; it overwrites only the fields whose keys
\* are in the parsed file and leaves the other fields as they were; when
\* reading or parsing fails at any point (no file, malformed or empty YAML,
\* a failure after some fields were assigned) every field ends equal to the
\* hard-coded default configuration, never a mixture of file values and
\* defaults.
C24_LoadOverwritesGivenKeysOrFallsBackToDefaults ==
    load_result # None =>
        LET after == load_result[1]
            default == SetDefaultConfig(NewGuardrailConfig)
        IN  IF LoadSucceeds
            THEN \A f \in DOMAIN load_config :
                    after[f] = IF f \in DOMAIN load_file.body THEN load_file.body[f]
                               ELSE load_config[f]
            ELSE \A f \in DOMAIN load_config : after[f] = default[f]

(***************************************************************************)
(* Claims about the general context (specification AgentSpec).             *)
(***************************************************************************)
\* the positions of the chat history entries whose user and assistant text
\* holds a key term, whatever the case of the letters
MatchingEntries ==
    {k \in 1..Len(chat_history) : IsRelevant(chat_history[k], general_key_terms)}

\* C25: the general context ends with the relevant conversation history made
\* of the 2 most recent entries of chat_history whose user and assistant text
\* holds a key term (of less when there are fewer, of none when there is
\* none), for a chat history of any length and any number of such entries.
C25_TwoMostRecentRelevantEntries ==
    general_context # None =>
        LET recent == {k \in MatchingEntries :
                          Cardinality({j \in MatchingEntries : j > k}) < 2}
        IN  /\ \A k \in 1..Len(chat_history) :
                  Contains(general_context[1], HistoryLine(chat_history[k]))
                      <=> k \in recent
            /\ Contains(general_context[1], "Relevant conversation history:\n")
                  <=> recent # {}

(***************************************************************************)
(* More claims about the guardrail processor (specification GuardSpec).    *)
(***************************************************************************)
\* the text of the query and of the response that the disclaimer terms are
\* looked up in
CombinedText == Lower(gQuery) \o " " \o Lower(gResponse)

\* the disclaimer due by the priority security, blockchain, technical
DueDisclaimer ==
    IF AnyTermIn(SecurityTerms, CombinedText) THEN "security"
    ELSE IF AnyTermIn(BlockchainTerms, CombinedText) THEN "blockchain"
    ELSE IF AnyTermIn(TechnicalTerms, CombinedText) THEN "technical"
    ELSE "none"

\* the configured disclaimers that the processed response holds
DisclaimersShown ==
    {c \in DOMAIN gConfig.disclaimers :
        /\ gConfig.disclaimers[c] # ""
        /\ Contains(gProcessed[1], gConfig.disclaimers[c])}

\* C26: process_response appends at most one disclaimer per call, chosen by
\* the priority security > blockchain > technical over the lowercased query
\* and response: with a security term only the security disclaimer, also when
\* blockchain or technical terms are there too; the technical disclaimer only
\* when neither a security nor a blockchain term is there.
C26_OneDisclaimerByPriority ==
    gProcessed # None =>
        /\ Cardinality(DisclaimersShown) <= 1
        /\ \A c \in DOMAIN gConfig.disclaimers :
              gConfig.disclaimers[c] # "" =>
                 /\ c \in DisclaimersShown <=> c = DueDisclaimer
                 /\ c = DueDisclaimer => EndsWith(gProcessed[1], gConfig.disclaimers[c])

\* C26 witness: a query and a response with a security term and a blockchain
\* term have got the security disclaimer alone, of the three configured.
C26_Witness ==
    /\ gProcessed # None
    /\ AnyTermIn(SecurityTerms, CombinedText)
    /\ AnyTermIn(BlockchainTerms, CombinedText)
    /\ DOMAIN gConfig.disclaimers = {"security", "blockchain", "technical"}
    /\ DisclaimersShown = {"security"}

(***************************************************************************)
(* More claims about the coordinator (specification Spec).                 *)
(***************************************************************************)
\* run_pipeline returned from its except branch (line 75)
ReturnedPipelineError == pc = "done" /\ idx <= N

\* C27: when an exception escapes the per-agent loop (one that
\* execute_with_logging did not absorb), run_pipeline does not raise and runs
\* no further agent: it returns a mapping with exactly the keys error (the
\* coordinator's 'Pipeline error: ' text) and processing_history (the entries
\* of the agents completed so far), the rest of the accumulated state being
\* discarded.
C27_EscapedExceptionGivesErrorAndHistoryOnly ==
    ReturnedPipelineError =>
        /\ DOMAIN ret = {"error", "processing_history"}
        /\ ret["error"] = CoordinatorId
        /\ ret["processing_history"] = CoordinatorId
        /\ running = {}
        /\ Len(received) = idx
        /\ Len(processing_history) \in {idx - 1, idx}
        /\ \A i \in 1..Len(processing_history) :
              processing_history[i] = HistoryEntry(i, results[i])
        /\ \A i \in 1..(idx - 1) : agents[i].behav \notin {"no_get", "no_keys"}
        /\ agents[idx].behav \in {"no_get", "no_keys"}

\* C27 witness: the second of three agents returned something that the merge
\* at line 63 cannot unpack, after a first agent that added a key; the third
\* agent never ran and the key of the first is not in what was returned.
C27_Witness ==
    /\ ReturnedPipelineError
    /\ N = 3
    /\ idx = 2
    /\ agents[1] = [behav |-> "ok", out |-> {"a"}]
    /\ agents[2].behav = "no_keys"
    /\ "a" \in DOMAIN current_data
    /\ "a" \notin DOMAIN ret
    /\ Len(processing_history) = 2
    /\ Len(received) = 2

\* the agents whose result carried an error, which is how the coordinator
\* tells a failed agent (agent_coordinator.py:59)
FailedAgents == {i \in 1..Len(results) : "error" \in DOMAIN results[i]}

\* C30: for an initial state without an error key, the state returned by a
\* run_pipeline that completed normally has a top-level error key if and only
\* if at least one agent failed, and its value, together with the agent key,
\* is that of the last failing agent: the agents that succeed after a failure
\* do not clear it, although their own processing_history entries have no
\* error.
C30_ErrorOfLastFailingAgentStays ==
    (ReturnedNormally /\ "error" \notin DOMAIN initial_input) =>
        /\ "error" \in DOMAIN ret <=> FailedAgents # {}
        /\ FailedAgents # {} =>
              LET last == Max(FailedAgents)
              IN  /\ ret["error"] = last
                  /\ "agent" \in DOMAIN results[last] =>
                        "agent" \in DOMAIN ret /\ ret["agent"] = last
                  /\ \A j \in (last + 1)..N : processing_history[j].error = NoError
        /\ \A i \in 1..N :
              /\ agents[i].behav \in {"raise", "none"} =>
                    i \in FailedAgents /\ "agent" \in DOMAIN results[i]
              /\ i \in FailedAgents <=> processing_history[i].error # NoError

\* C30 witness: the second of three agents raised and the third succeeded;
\* the state returned holds the error and the agent key of the second, and
\* the history entry of the third has no error.
C30_Witness ==
    /\ ReturnedNormally
    /\ "error" \notin DOMAIN initial_input
    /\ N = 3
    /\ agents[1].behav = "raise"
    /\ agents[2].behav = "raise"
    /\ agents[3] = [behav |-> "ok", out |-> {"b", "query"}]
    /\ ret["error"] = 2
    /\ ret["agent"] = 2
    /\ ret["b"] = 3
    /\ processing_history[2].error = 2
    /\ processing_history[3].error = NoError

\* the terms of a high-risk group that are in the query as whole words
WholeWordTerms(combination) ==
    {k \in 1..Len(combination) : Search(Word(combination[k]), Lower(gQuery))}

\* C29: the high-risk-combination rule of check_query blocks a query only
\* when at least len(group) - 1 terms of some configured group are in the
\* query as whole words, and never on account of a group none of whose terms
\* is in the query, whatever the size of the group (one or two terms too).
C29_CombinationNeedsItsTermsAsWords ==
    (gCheck # None /\ gCheck[1].custom_response = Some(CombinationReply)) =>
        \E g \in 1..Len(gConfig.high_risk_combinations) :
            LET combination == gConfig.high_risk_combinations[g]
            IN  /\ Cardinality(WholeWordTerms(combination)) >= Len(combination) - 1
                /\ WholeWordTerms(combination) # {}

(***************************************************************************)
(* Claims about the streaming of generate_response (specification          *)
(* StreamSpec).                                                            *)
(***************************************************************************)
\* the first n pieces of text generated, one after the other
RECURSIVE Produced(_)
Produced(n) == IF n = 0 THEN "" ELSE Produced(n - 1) \o to_generate[n]

\* the text pieces waiting on the queue
QueuedTexts == Cardinality({k \in 1..Len(text_queue) : ~text_queue[k].stop})

\* the caller waits for the queue and nothing will ever be put on it
BlockedForever ==
    /\ caller = "consuming"
    /\ text_queue = <<>>
    /\ worker = "died"

\* C28: in the legacy streaming path the generation runs on a worker thread
\* while the caller consumes the stream: the caller accumulates the tokens in
\* exactly the order the worker produced them, goes on to the guardrail
\* post-processing and the history append only after the worker has signalled
\* the end of the stream, and the accumulated text is then the concatenation
\* of all tokens produced; when the worker stalls or ends without that signal
\* the caller stays blocked for ever (no timeout, no cancellation).
C28_CallerFollowsTheStream ==
    /\ [](/\ put_count \in 0..Len(to_generate)
          /\ caller \in {"starting", "consuming"} =>
                /\ put_count >= QueuedTexts
                /\ stream_response = Produced(put_count - QueuedTexts)
                /\ stream_history = <<>> /\ returned = None
          /\ caller \in {"processing", "returned"} =>
                /\ worker = "ended"
                /\ text_queue = <<>>
                /\ put_count = Len(to_generate)
                /\ stream_response = Produced(Len(to_generate))
          /\ worker # "ended" => caller \in {"starting", "consuming"}
          /\ (caller = "consuming" /\ text_queue = <<>>) => ~ENABLED NextToken)
    /\ [][BlockedForever => UNCHANGED streamVars]_vars
    /\ [][(caller = "consuming" /\ worker = "generating" /\ text_queue = <<>>)
             => (caller' = "consuming" /\ stream_response' = stream_response)]_vars

\* C28 witness: three pieces were generated and consumed in their order, the
\* end was signalled, and the processed text was stored and returned.
C28_Witness ==
    /\ caller = "returned"
    /\ Len(to_generate) = 3
    /\ to_generate[1] # to_generate[2]
    /\ stream_response = to_generate[1] \o to_generate[2] \o to_generate[3]
    /\ Len(stream_history) = 2
    /\ returned # None

====
